---- MODULE Spec2Model ----
(***************************************************************************)
(* Model of the EIP-7706 vector fee market of rollup-geth:                 *)
(*   - vector algebra            core/types/vector_fee.go                  *)
(*   - fee market engine         consensus/misc/eip7706 (CalcExecGas, ...) *)
(*   - header consensus rule     VerifyEIP7706Header                       *)
(*   - header codec              Header.EncodeRLP / Header.DecodeRLP       *)
(*   - transaction gas accounting  core/state_transition_rollup.go         *)
(*   - base fee store            core/rawdb accessors of header base fees  *)
(*   - block building            miner/worker.go (prepareWork)             *)
(*   - vector fee pool           core/txpool VectorFeePoolDummy            *)
(*                                                                         *)
(* The specifications share the module, one per component: SpecCalc,       *)
(* SpecVerify, SpecCodec, SpecGas, SpecVec, SpecStore, SpecMiner,          *)
(* SpecPool, SpecConc (the engine called from two goroutines).             *)
(*                                                                         *)
(* Conventions.  A Go pointer or slice that may be nil is a sequence of    *)
(* length at most one: None is nil, Some(x) is a non-nil value x.  A       *)
(* vector is a sequence indexed 1..3 (Execution, Blob, Calldata).  TLC's   *)
(* integers are 32 bits wide, so the 64-bit machine word is modelled by a  *)
(* word of UintBits bits: wrap-around arithmetic keeps its shape.          *)
(***************************************************************************)
EXTENDS Integers, Naturals, Sequences, FiniteSets, TLC

VARIABLES
    calcIn,     \* SpecCalc: arguments of the fee market engine functions
    calcOut,    \* SpecCalc: the value the applied function returned
    parent,     \* SpecVerify: the parent header
    header,     \* SpecVerify: the candidate child header
    result,     \* SpecVerify: what VerifyEIP7706Header returned
    sanitized,  \* SpecVerify: what SanitizeEIP7706Fields(parent) returned
    hdr,        \* SpecCodec: the header handed to EncodeRLP
    wire,       \* SpecCodec: the RLP items EncodeRLP wrote
    decoded,    \* SpecCodec: the header DecodeRLP filled in
    decErr,     \* SpecCodec: the error DecodeRLP returned
    msg,        \* SpecGas: the message of the transaction (st.msg)
    st,         \* SpecGas: StateTransition fields and the balances it moves
    db,         \* SpecStore: the key-value store, key -> the bytes stored
    written,    \* SpecStore: per hash, the base fees last written and not deleted
    readOut,    \* SpecStore: what the read just performed returned
    txPool,     \* SpecPool: the vector fee pool (txs, txsByAddress)
    poolCall,   \* SpecPool: the call just made on the pool and what it was given
    calls,      \* SpecConc: per goroutine, the engine call it is making
    pc          \* position of the component under check

vars == <<calcIn, calcOut, parent, header, result, sanitized, hdr, wire, decoded, decErr, msg, st,
          db, written, readOut, txPool, poolCall, calls, pc>>

calcVars   == <<calcIn, calcOut>>
verifyVars == <<parent, header, result, sanitized>>
codecVars  == <<hdr, wire, decoded, decErr>>
gasVars    == <<msg, st>>
storeVars  == <<db, written, readOut>>
poolVars   == <<txPool, poolCall>>
concVars   == <<calls>>

----------------------------------------------------------------------------
(* Optional values *)

None == <<>>

Some(x) == <<x>>

IsNil(o) == o = None

Val(o) == o[1]

Min(a, b) == IF a <= b THEN a ELSE b

Max(a, b) == IF a >= b THEN a ELSE b

----------------------------------------------------------------------------
(* Bounds *)

\* width of the modelled machine word (uint64 in the source)
UintBits == 20

UintMod == 2 ^ UintBits

MaxUint == UintMod - 1

----------------------------------------------------------------------------
(* Protocol parameters *)

ExecutionGasIndex == 1

BlobGasIndex == 2

CalldataGasIndex == 3

VectorFeeTypesCount == 3

TxMinGasPrice == 1

CalldataTokensPerNonZeroByte == 4

CalldataGasPerToken == 4

CallDataGasLimitRatio == 4

BaseFeeUpdateFraction == 8

LimitTargetRatios == <<2, 2, 4>>

BlobTxBlobGasPerBlob == 131072

MaxBlobGasPerBlock == 6 * BlobTxBlobGasPerBlob

Dims == 1..VectorFeeTypesCount

NoError == "nil"

Panic == "panic"

----------------------------------------------------------------------------
(* Vector algebra on VectorGasLimit ([]uint64) *)

\* make(VectorGasLimit, VectorFeeTypesCount) filled by "for i, v := range vec":
\* an index past the result, or past the other operand, panics
RangePanics(vec, other) == Len(vec) > VectorFeeTypesCount \/ Len(vec) > Len(other)

VectorAdd(vec, other) ==
    [i \in Dims |-> IF i <= Len(vec) THEN (vec[i] + other[i]) % UintMod ELSE 0]

VectorSubtractNoClamp(vec, other) ==
    [i \in Dims |-> IF i <= Len(vec) THEN (vec[i] - other[i] + UintMod) % UintMod ELSE 0]

VectorSubtractClampAtZero(vec, other) ==
    [i \in Dims |-> IF i <= Len(vec)
                    THEN (IF vec[i] <= other[i] THEN 0 ELSE vec[i] - other[i])
                    ELSE 0]

\* VectorGasLimit.VectorAllEq: compares the receiver's indices only
GasVectorAllEqPanics(vec, other) == Len(vec) > Len(other)

GasVectorAllEq(vec, other) == \A i \in 1..Len(vec) : vec[i] = other[i]

----------------------------------------------------------------------------
(* Fee market engine *)

\* params.LimitTargetRatios is a package variable: its value is the table
\* above unless a run has assigned another one (calcIn.ratios)
paramsLimitTargetRatios == IF DOMAIN calcIn = {} THEN LimitTargetRatios ELSE calcIn.ratios

\* getBlockTargets taking a zero ratio for a ratio of one
getBlockTargetsZeroRatioAsOne(parentGasLimits) ==
    [i \in Dims |-> IF i <= Len(parentGasLimits)
                    THEN (IF paramsLimitTargetRatios[i] = 0 THEN parentGasLimits[i]
                          ELSE parentGasLimits[i] \div paramsLimitTargetRatios[i])
                    ELSE 0]

getBlockTargets(parentGasLimits) ==
    [i \in Dims |-> IF i <= Len(parentGasLimits)
                    THEN (IF paramsLimitTargetRatios[i] = 0 THEN 0
                          ELSE parentGasLimits[i] \div paramsLimitTargetRatios[i])
                    ELSE 0]

CalcExecGas(parentGasUsed, parentExecGas, parentGasLimits) ==
    VectorSubtractClampAtZero(VectorAdd(parentExecGas, parentGasUsed),
                              getBlockTargets(parentGasLimits))

\* big.NewInt(int64(x)) of a machine word: the upper half of the range is negative
ToInt64(x) == IF x >= UintMod \div 2 THEN x - UintMod ELSE x

\* <<q, r>> with a * b = q * c + r and 0 <= r < c, for a, b >= 0 and c > 0;
\* the product itself is never formed (it does not fit TLC's integers)
RECURSIVE MulDivRem(_, _, _)
MulDivRem(a, b, c) ==
    IF b = 0 THEN <<0, 0>>
    ELSE LET h == MulDivRem(a, b \div 2, c)
             t == 2 * h[2] + (b % 2) * (a % c)
         IN  <<2 * h[1] + (b % 2) * (a \div c) + t \div c, t % c>>

\* accum.Mul(accum, numerator); accum.Div(accum, denominator) on big.Int:
\* Euclidean division, which for a positive divisor is the floor
MulThenDiv(accum, numerator, denominator) ==
    IF numerator >= 0
    THEN MulDivRem(accum, numerator, denominator)[1]
    ELSE LET qr == MulDivRem(accum, -numerator, denominator)
         IN  -qr[1] - (IF qr[2] > 0 THEN 1 ELSE 0)

RECURSIVE fakeExponentialLoop(_, _, _, _, _)
fakeExponentialLoop(output, accum, i, numerator, denominator) ==
    IF accum > 0
    THEN fakeExponentialLoop(output + accum,
                             MulThenDiv(accum, numerator, denominator) \div i,
                             i + 1, numerator, denominator)
    ELSE output

fakeExponential(factor, numerator, denominator) ==
    fakeExponentialLoop(0, factor * denominator, 1, numerator, denominator) \div denominator

\* CalcBaseFees running the exponential on a floor denominator of one where
\* the target is zero
CalcBaseFeesNoZeroTest(parentExecGas, parentGasLimits) ==
    [i \in Dims |->
        IF i <= Len(parentExecGas)
        THEN Some(fakeExponential(TxMinGasPrice, Min(ToInt64(parentExecGas[i]), 16),
                  Max(1, ToInt64(getBlockTargets(parentGasLimits)[i]) * BaseFeeUpdateFraction)))
        ELSE None]

CalcBaseFees(parentExecGas, parentGasLimits) ==
    LET targets == getBlockTargets(parentGasLimits)
    IN  [i \in Dims |->
            IF i <= Len(parentExecGas)
            THEN LET target == ToInt64(targets[i]) * BaseFeeUpdateFraction
                 IN  IF target = 0
                     THEN Some(TxMinGasPrice)
                     ELSE Some(fakeExponential(TxMinGasPrice, ToInt64(parentExecGas[i]), target))
            ELSE None]

----------------------------------------------------------------------------
(* Vector algebra on VectorFeeBigint ([]*big.Int): elements may be nil *)

\* slices.EqualFunc: equal lengths, and elementwise both nil or equal values
FeeVectorAllEq(vec, vecOther) ==
    /\ Len(vec) = Len(vecOther)
    /\ \A i \in 1..Len(vec) : vec[i] = vecOther[i]

----------------------------------------------------------------------------
(* Header consensus rule *)

ErrMissingExcessGas == "header is missing excessGas"

ErrMissingGasUsedVector == "header is missing gasUsedVector"

ErrMissingGasLimits == "header is missing gasLimits"

ErrBlobGasExceeds == "blob gas used exceeds maximum allowance"

ErrBlobGasMultiple == "blob gas used not a multiple of blob gas per blob"

ErrCalldataGasMultiple == "calldata gas used not a multiple of calldata gas per token"

ErrInvalidExcessGas == "invalid excessGas"

ErrInvalidBaseFee == "invalid baseFee"

MakeSureEIP7706FieldsAreNonNil(h) ==
    IF IsNil(h.ExcessGas) THEN ErrMissingExcessGas
    ELSE IF IsNil(h.GasUsedVector) THEN ErrMissingGasUsedVector
    ELSE IF IsNil(h.GasLimits) THEN ErrMissingGasLimits
    ELSE NoError

\* the legacy branch dereferences BlobGasUsed and ExcessBlobGas unchecked
SanitizePanics(h) ==
    /\ MakeSureEIP7706FieldsAreNonNil(h) # NoError
    /\ (IsNil(h.BlobGasUsed) \/ IsNil(h.ExcessBlobGas))

SanitizeOwnOnly(h) ==
    [gasUsed   |-> IF IsNil(h.GasUsedVector) THEN <<0, 0, 0>> ELSE Val(h.GasUsedVector),
     excessGas |-> IF IsNil(h.ExcessGas) THEN <<0, 0, 0>> ELSE Val(h.ExcessGas),
     gasLimits |-> IF IsNil(h.GasLimits) THEN <<0, 0, 0>> ELSE Val(h.GasLimits)]

\* defined where SanitizePanics(h) is false
SanitizeEIP7706Fields(h) ==
    IF MakeSureEIP7706FieldsAreNonNil(h) # NoError
    THEN [gasUsed   |-> <<h.GasUsed, Val(h.BlobGasUsed), h.GasUsed \div CallDataGasLimitRatio>>,
          excessGas |-> <<0, Val(h.ExcessBlobGas), 0>>,
          gasLimits |-> <<h.GasLimit, MaxBlobGasPerBlock, h.GasLimit \div CallDataGasLimitRatio>>]
    ELSE [gasUsed   |-> Val(h.GasUsedVector),
          excessGas |-> Val(h.ExcessGas),
          gasLimits |-> Val(h.GasLimits)]

\* the excess check alone: the base fee cache is never looked at
VerifyAgainstParentNoBaseFeeCheck(s, h) ==
    LET expectedExcessGas == CalcExecGas(s.gasUsed, s.excessGas, s.gasLimits)
        got == Val(h.ExcessGas)
    IN  IF \E i \in 1..Min(Len(got), Len(expectedExcessGas)) : got[i] # expectedExcessGas[i]
        THEN ErrInvalidExcessGas
        ELSE IF GasVectorAllEqPanics(got, expectedExcessGas) THEN Panic
        ELSE NoError

VerifyAgainstParent(s, h) ==
    LET expectedExcessGas == CalcExecGas(s.gasUsed, s.excessGas, s.gasLimits)
        got == Val(h.ExcessGas)
    IN  IF RangePanics(s.excessGas, s.gasUsed) \/ Len(s.gasLimits) > VectorFeeTypesCount
        THEN Panic
        \* VectorAllEq returns false at the first differing index, and indexes
        \* the expected vector past its end when the header's vector is longer
        ELSE IF \E i \in 1..Min(Len(got), Len(expectedExcessGas)) : got[i] # expectedExcessGas[i]
        THEN ErrInvalidExcessGas
        ELSE IF GasVectorAllEqPanics(got, expectedExcessGas) THEN Panic
        ELSE IF /\ ~IsNil(h.BaseFees)
                /\ ~FeeVectorAllEq(Val(h.BaseFees), CalcBaseFees(s.excessGas, s.gasLimits))
        THEN ErrInvalidBaseFee
        ELSE NoError

VerifyEIP7706Header(p, h) ==
    IF MakeSureEIP7706FieldsAreNonNil(h) # NoError
    THEN MakeSureEIP7706FieldsAreNonNil(h)
    ELSE LET used == Val(h.GasUsedVector)
         IN  IF Len(used) < BlobGasIndex THEN Panic
             ELSE IF used[BlobGasIndex] > MaxBlobGasPerBlock THEN ErrBlobGasExceeds
             ELSE IF used[BlobGasIndex] % BlobTxBlobGasPerBlob # 0 THEN ErrBlobGasMultiple
             ELSE IF Len(used) < CalldataGasIndex THEN Panic
             ELSE IF used[CalldataGasIndex] % CalldataGasPerToken # 0 THEN ErrCalldataGasMultiple
             ELSE IF SanitizePanics(p) THEN Panic
             ELSE VerifyAgainstParent(SanitizeEIP7706Fields(p), h)

----------------------------------------------------------------------------
(* Idle values of the components a specification does not exercise *)

CalcIdle == calcIn = None /\ calcOut = None

VerifyIdle == parent = None /\ header = None /\ result = None /\ sanitized = None

CodecIdle == hdr = None /\ wire = None /\ decoded = None /\ decErr = None

GasIdle == msg = None /\ st = None

StoreIdle == db = None /\ written = None /\ readOut = None

PoolIdle == txPool = None /\ poolCall = None

ConcIdle == calls = None

----------------------------------------------------------------------------
(* SpecCalc: the pure functions of the fee market engine on drawn inputs *)

UsedVals == {0, 5, 16, MaxUint}

ExcessVals == {0, 7, 200, MaxUint - 4}

LimitVals == {0, 20, 41}

\* values of params.LimitTargetRatios: the default table and the tables the
\* test assigns ([3]uint64{1, 2} is {1, 2, 0})
RatioVals == {LimitTargetRatios, <<0, 0, 0>>, <<1, 2, 0>>}

Vec3(S) == {<<a, b, c>> : a \in S, b \in S, c \in S}

CalcInit ==
    /\ \E u \in Vec3(UsedVals), e \in {<<x, y, y>> : x \in ExcessVals, y \in ExcessVals},
          l \in {<<x, y, y>> : x \in LimitVals, y \in LimitVals}, r \in RatioVals :
          calcIn = [used |-> u, excess |-> e, limits |-> l, ratios |-> r]
    /\ calcOut = None
    /\ pc = "calc"
    /\ VerifyIdle /\ CodecIdle /\ GasIdle /\ StoreIdle /\ PoolIdle /\ ConcIdle

DoCalcExecGas ==
    /\ pc = "calc"
    /\ calcIn.ratios = LimitTargetRatios
    /\ calcOut' = Some([fn |-> "CalcExecGas",
                        v |-> CalcExecGas(calcIn.used, calcIn.excess, calcIn.limits)])
    /\ pc' = "done"
    /\ UNCHANGED <<calcIn, verifyVars, codecVars, gasVars, storeVars, poolVars, concVars>>

DoGetBlockTargets ==
    /\ pc = "calc"
    /\ calcOut' = Some([fn |-> "getBlockTargets", v |-> getBlockTargets(calcIn.limits)])
    /\ pc' = "done"
    /\ UNCHANGED <<calcIn, verifyVars, codecVars, gasVars, storeVars, poolVars, concVars>>

DoCalcBaseFees ==
    /\ pc = "calc"
    /\ calcOut' = Some([fn |-> "CalcBaseFees",
                        v |-> CalcBaseFees(calcIn.excess, calcIn.limits)])
    /\ pc' = "done"
    /\ UNCHANGED <<calcIn, verifyVars, codecVars, gasVars, storeVars, poolVars, concVars>>

CalcNext == DoCalcExecGas \/ DoGetBlockTargets \/ DoCalcBaseFees

SpecCalc == CalcInit /\ [][CalcNext]_vars

----------------------------------------------------------------------------
(* SpecVerify: VerifyEIP7706Header on drawn parent and candidate headers *)

ParentUsedVals == {<<10, 10, 10>>, <<16, 10, 12>>}

ParentExcessVals == {<<0, 0, 0>>, <<60, 0, 0>>}

ParentLimitVals == {<<20, 20, 40>>}

LegacyHeader(gasLimit, gasUsed, blobGasUsed, excessBlobGas) ==
    [GasLimits |-> None, GasUsedVector |-> None, ExcessGas |-> None, BaseFees |-> None,
     GasLimit |-> gasLimit, GasUsed |-> gasUsed,
     BlobGasUsed |-> blobGasUsed, ExcessBlobGas |-> excessBlobGas]

VectorHeader(gasLimits, gasUsedVector, excessGas, baseFees) ==
    [GasLimits |-> gasLimits, GasUsedVector |-> gasUsedVector, ExcessGas |-> excessGas,
     BaseFees |-> baseFees,
     GasLimit |-> 0, GasUsed |-> 0, BlobGasUsed |-> None, ExcessBlobGas |-> None]

\* parents: EIP-7706 blocks, pre-fork blocks with or without the blob gas
\* fields, and blocks carrying only some of the vectors
Parents ==
    {VectorHeader(Some(l), Some(u), Some(e), None) :
        l \in ParentLimitVals, u \in ParentUsedVals, e \in ParentExcessVals}
    \cup
    {LegacyHeader(40, gu, bgu, ebg) :
        gu \in {0, 36},
        bgu \in {None, Some(0), Some(4 * BlobTxBlobGasPerBlob)},
        ebg \in {None, Some(0), Some(BlobTxBlobGasPerBlob)}}
    \cup
    {[LegacyHeader(40, 36, Some(0), Some(0)) EXCEPT !.GasLimits = Some(<<20, 20, 40>>),
                                                   !.GasUsedVector = Some(<<16, 10, 12>>)]}

CandidateGasLimits == {None, Some(<<40, MaxBlobGasPerBlock, 10>>), Some(<<>>)}

CandidateGasUsed ==
    {None, Some(<<>>), Some(<<0>>), Some(<<0, 0>>), Some(<<0, 0, 0>>), Some(<<0, 0, 0, 0>>),
     Some(<<50, BlobTxBlobGasPerBlob, 4>>),
     Some(<<0, MaxBlobGasPerBlock + BlobTxBlobGasPerBlob, 0>>),
     Some(<<0, BlobTxBlobGasPerBlob + 1, 0>>),
     Some(<<0, MaxBlobGasPerBlock + 1, 5>>),
     Some(<<0, 0, 5>>),
     Some(<<0, 3>>)}

CandidateExcessGas ==
    {None, Some(<<>>), Some(<<0>>), Some(<<0, 0, 0>>), Some(<<0, 0, 0, 0>>),
     Some(<<1, 0, 0>>), Some(<<0, 0, 1>>), Some(<<6, 0, 2>>), Some(<<60, 0, 0>>),
     Some(<<66, 0, 2>>), Some(<<16, 2 * BlobTxBlobGasPerBlob, 7>>), Some(<<6, 0, 2, 9>>)}

CandidateBaseFees ==
    {None, Some(<<>>), Some(<<Some(1), Some(1)>>),
     Some(<<Some(1), Some(1), Some(1)>>), Some(<<Some(0), Some(1), Some(1)>>),
     Some(<<Some(2), Some(1), Some(1)>>), Some(<<None, Some(1), Some(1)>>),
     Some(<<Some(1), Some(1), Some(1), Some(1)>>)}

VerifyInit ==
    /\ parent \in Parents
    /\ \E l \in CandidateGasLimits, u \in CandidateGasUsed,
          e \in CandidateExcessGas, b \in CandidateBaseFees :
          header = VectorHeader(l, u, e, b)
    /\ result = None
    /\ sanitized = None
    /\ pc = "verify"
    /\ CalcIdle /\ CodecIdle /\ GasIdle /\ StoreIdle /\ PoolIdle /\ ConcIdle

DoVerifyEIP7706Header ==
    /\ pc = "verify"
    /\ result' = Some(VerifyEIP7706Header(parent, header))
    /\ pc' = "done"
    /\ UNCHANGED <<parent, header, sanitized, calcVars, codecVars, gasVars, storeVars, poolVars, concVars>>

\* SanitizeEIP7706Fields called on the parent on its own, as
\* CalcBaseFeesFromParentHeader does
DoSanitizeEIP7706Fields ==
    /\ pc = "verify"
    /\ sanitized = None
    /\ sanitized' = IF SanitizePanics(parent)
                    THEN Some([panicked |-> TRUE, triple |-> None])
                    ELSE Some([panicked |-> FALSE,
                               triple |-> Some(SanitizeEIP7706Fields(parent))])
    /\ UNCHANGED <<parent, header, result, pc, calcVars, codecVars, gasVars, storeVars, poolVars, concVars>>

VerifyNext == DoVerifyEIP7706Header \/ DoSanitizeEIP7706Fields

SpecVerify == VerifyInit /\ [][VerifyNext]_vars

Verified == result # None

Outcome == Val(result)

\* the parent triple the checks are made against, where the parent has one
ParentTripleDefined == ~SanitizePanics(parent)

ExpectedExcessGas ==
    LET s == SanitizeEIP7706Fields(parent)
    IN  CalcExecGas(s.gasUsed, s.excessGas, s.gasLimits)

ExpectedBaseFees ==
    LET s == SanitizeEIP7706Fields(parent)
    IN  CalcBaseFees(s.excessGas, s.gasLimits)

----------------------------------------------------------------------------
(* The checks of VerifyEIP7706Header as the specification states them *)

HeaderFieldMissing ==
    IsNil(header.GasLimits) \/ IsNil(header.GasUsedVector) \/ IsNil(header.ExcessGas)

MissingFieldErrors ==
    (IF IsNil(header.GasLimits) THEN {ErrMissingGasLimits} ELSE {})
    \cup (IF IsNil(header.GasUsedVector) THEN {ErrMissingGasUsedVector} ELSE {})
    \cup (IF IsNil(header.ExcessGas) THEN {ErrMissingExcessGas} ELSE {})

UsedAt(i) == Val(header.GasUsedVector)[i]

HasUsedAt(i) == ~IsNil(header.GasUsedVector) /\ Len(Val(header.GasUsedVector)) >= i

BlobGasTooHigh == HasUsedAt(BlobGasIndex) /\ UsedAt(BlobGasIndex) > MaxBlobGasPerBlock

BlobGasNotMultiple ==
    HasUsedAt(BlobGasIndex) /\ UsedAt(BlobGasIndex) % BlobTxBlobGasPerBlob # 0

CalldataGasNotMultiple ==
    HasUsedAt(CalldataGasIndex) /\ UsedAt(CalldataGasIndex) % CalldataGasPerToken # 0

\* equality of a header vector with a three-element vector the engine computed
SameVector(v, expected) ==
    /\ Len(v) = VectorFeeTypesCount
    /\ \A i \in Dims : v[i] = expected[i]

ExcessGasMismatch ==
    /\ ParentTripleDefined
    /\ ~IsNil(header.ExcessGas)
    /\ ~SameVector(Val(header.ExcessGas), ExpectedExcessGas)

BaseFeeMismatch ==
    /\ ParentTripleDefined
    /\ ~IsNil(header.BaseFees)
    /\ ~SameVector(Val(header.BaseFees), ExpectedBaseFees)

\* every check made before the comparison with the parent passes
EarlyChecksPass ==
    /\ ~HeaderFieldMissing
    /\ HasUsedAt(CalldataGasIndex)
    /\ ~BlobGasTooHigh /\ ~BlobGasNotMultiple /\ ~CalldataGasNotMultiple

\* C5: VerifyEIP7706Header returns nil only if header.ExcessGas equals, in each
\* of the three dimensions, CalcExecGas of the sanitized parent triple; a header
\* whose ExcessGas differs is rejected with "invalid excessGas".
C5_ExcessGasChecked ==
    Verified =>
        /\ Outcome = NoError =>
              (ParentTripleDefined /\ SameVector(Val(header.ExcessGas), ExpectedExcessGas))
        /\ (EarlyChecksPass /\ ExcessGasMismatch) => Outcome = ErrInvalidExcessGas

\* C6: for every candidate header and every parent (vector-active, or legacy
\* with its blob gas fields present or absent) VerifyEIP7706Header ends with
\* nil or with a returned error; it never panics.
C6_NeverPanics == Verified => Outcome # Panic

\* C7: VerifyEIP7706Header returns the error of the first violated check, in
\* the order: missing field, blob gas above the maximum, blob gas not a
\* multiple of the per-blob gas, calldata gas not a multiple of the per-token
\* gas, excess gas mismatch, base fee mismatch.
C7_FirstViolatedCheck ==
    Verified =>
        IF HeaderFieldMissing THEN Outcome \in MissingFieldErrors
        ELSE IF BlobGasTooHigh THEN Outcome = ErrBlobGasExceeds
        ELSE IF BlobGasNotMultiple THEN Outcome = ErrBlobGasMultiple
        ELSE IF CalldataGasNotMultiple THEN Outcome = ErrCalldataGasMultiple
        ELSE IF ExcessGasMismatch THEN Outcome = ErrInvalidExcessGas
        ELSE IF BaseFeeMismatch THEN Outcome = ErrInvalidBaseFee
        ELSE TRUE

ParentIsEIP7706 ==
    ~IsNil(parent.GasLimits) /\ ~IsNil(parent.GasUsedVector) /\ ~IsNil(parent.ExcessGas)

C9_BaseFeesOptional ==
    Verified =>
        /\ IsNil(header.BaseFees) => Outcome # ErrInvalidBaseFee
        /\ (~IsNil(header.BaseFees) /\ Outcome = NoError) =>
              (ParentTripleDefined /\ SameVector(Val(header.BaseFees), ExpectedBaseFees))
        /\ Outcome = ErrInvalidBaseFee => BaseFeeMismatch
        /\ (/\ BaseFeeMismatch
            /\ EarlyChecksPass
            /\ SameVector(Val(header.ExcessGas), ExpectedExcessGas))
              => Outcome = ErrInvalidBaseFee

\* a header carrying the base fees of a parent with excess demand was accepted
C9_Witness ==
    /\ Verified
    /\ Outcome = NoError
    /\ header.BaseFees = Some(<<Some(2), Some(1), Some(1)>>)
    /\ ParentIsEIP7706
    /\ Val(parent.ExcessGas) = <<60, 0, 0>>

----------------------------------------------------------------------------
\* C10: in every dimension where parentExcess + parentUsed fits in the machine
\* word, CalcExecGas returns max(0, parentExcess + parentUsed - limit / ratio),
\* and zero usage with zero excess gives the zero vector for any limits.
C10_ExcessGasFormula ==
    (calcOut # None /\ Val(calcOut).fn = "CalcExecGas") =>
        /\ \A i \in Dims :
              calcIn.excess[i] + calcIn.used[i] <= MaxUint =>
                  Val(calcOut).v[i] =
                      Max(0, calcIn.excess[i] + calcIn.used[i]
                             - (calcIn.limits[i] \div LimitTargetRatios[i]))
        /\ (calcIn.used = <<0, 0, 0>> /\ calcIn.excess = <<0, 0, 0>>)
              => Val(calcOut).v = <<0, 0, 0>>

\* a run where usage above target raised the excess in one dimension and
\* usage below target was clamped at zero in another
C10_Witness ==
    /\ calcOut # None
    /\ Val(calcOut).fn = "CalcExecGas"
    /\ calcIn.used = <<16, 5, MaxUint>>
    /\ calcIn.excess = <<7, 0, 0>>
    /\ calcIn.limits = <<20, 41, 41>>
    /\ Val(calcOut).v[1] = 13
    /\ Val(calcOut).v[2] = 0

----------------------------------------------------------------------------
CalcDone(fn) == calcOut # None /\ Val(calcOut).fn = fn

\* C11: for fixed parentExcess and parentLimits, CalcExecGas is monotonically
\* non-decreasing in parentUsed in every dimension over the whole range of the
\* machine word: raising parentUsed elementwise never lowers any element of
\* the result.
C11_MonotoneInUsed ==
    CalcDone("CalcExecGas") =>
        \A used2 \in Vec3(UsedVals) :
            (\A i \in Dims : calcIn.used[i] <= used2[i]) =>
                \A i \in Dims :
                    Val(calcOut).v[i] <= CalcExecGas(used2, calcIn.excess, calcIn.limits)[i]

\* C12: getBlockTargets(limits)[i] is floor(limits[i] / LimitTargetRatios[i])
\* when the ratio is non-zero and 0 when the ratio is zero.
C12_TargetsAreQuotients ==
    CalcDone("getBlockTargets") =>
        \A i \in Dims :
            Val(calcOut).v[i] =
                IF calcIn.ratios[i] = 0 THEN 0 ELSE calcIn.limits[i] \div calcIn.ratios[i]

\* targets were computed under a table with a zero ratio and a non-zero one,
\* from non-zero limits
C12_Witness ==
    /\ CalcDone("getBlockTargets")
    /\ calcIn.ratios = <<1, 2, 0>>
    /\ calcIn.limits = <<41, 20, 20>>
    /\ Val(calcOut).v = <<41, 10, 0>>

\* C13: CalcBaseFees returns exactly the minimum gas price in every dimension
\* whose target times BaseFeeUpdateFraction is zero, for any parent excess; all
\* zero excess and limits give the minimum price in every dimension.
C13_MinPriceOnZeroTarget ==
    CalcDone("CalcBaseFees") =>
        /\ \A i \in Dims :
              getBlockTargets(calcIn.limits)[i] * BaseFeeUpdateFraction = 0 =>
                  Val(calcOut).v[i] = Some(TxMinGasPrice)
        /\ (calcIn.excess = <<0, 0, 0>> /\ calcIn.limits = <<0, 0, 0>>) =>
              Val(calcOut).v = <<Some(TxMinGasPrice), Some(TxMinGasPrice), Some(TxMinGasPrice)>>

\* base fees were computed from a large excess with a zero target in two
\* dimensions (a zero limit) and a non-zero target in the third
C13_Witness ==
    /\ CalcDone("CalcBaseFees")
    /\ calcIn.ratios = LimitTargetRatios
    /\ calcIn.limits = <<20, 0, 0>>
    /\ calcIn.excess = <<7, MaxUint - 4, MaxUint - 4>>
    /\ Val(calcOut).v[2] = Some(TxMinGasPrice)
    /\ Val(calcOut).v[3] = Some(TxMinGasPrice)

----------------------------------------------------------------------------
(* RLP items.  The encoder buffer and the stream are modelled at the level *)
(* of items: a byte string (its bytes, most significant first) or a list   *)
(* of items.  The package rlp is not part of the sources read here; these  *)
(* definitions follow go-ethereum's rlp/encbuffer.go and rlp/decode.go.    *)

Str(b) == [list |-> FALSE, bytes |-> b, items |-> <<>>]

Lst(xs) == [list |-> TRUE, bytes |-> <<>>, items |-> xs]

Rep(n, b) == [i \in 1..n |-> b]

\* the number of bytes of a uint64 (maxbits / 8 in Stream.uint)
UintSize == 8

RECURSIVE putint(_)
\* rlp.putint: the big-endian digits of i without leading zeros
putint(i) == IF i = 0 THEN <<>> ELSE Append(putint(i \div 256), i % 256)

RECURSIVE readUint(_)
\* Stream.readUint: the value of a big-endian byte string
readUint(b) ==
    IF b = <<>> THEN 0 ELSE readUint(SubSeq(b, 1, Len(b) - 1)) * 256 + b[Len(b)]

EmptyString == Str(<<>>)

WriteBytes(b) == Str(b)

WriteUint64(i) == Str(putint(i))

WriteBigInt(i) == Str(putint(i))

EOL == "rlp: end of list"

ErrExpectedString == "rlp: expected String or Byte"

ErrExpectedList == "rlp: expected List"

ErrCanonInt == "rlp: non-canonical integer (leading zero bytes)"

errUintOverflow == "rlp: uint overflow"

ErrStringTooShort == "rlp: input string too short"

ErrStringTooLong == "rlp: input string too long"

\* The result of reading one value at position pos of stream s: the error,
\* the value, and the position of the stream afterwards.
Read(e, v, p) == [err |-> e, v |-> v, pos |-> p]

\* Stream.uint(64).  A single byte 0 and a string longer than a uint64 are
\* rejected before the item is consumed; a longer string with a leading zero
\* byte is rejected after its bytes were read.
StreamUint(s, pos) ==
    IF pos > Len(s) THEN Read(EOL, 0, pos)
    ELSE LET b == s[pos].bytes
             size == Len(b)
         IN  IF s[pos].list THEN Read(ErrExpectedString, 0, pos)
             ELSE IF size = 1 /\ b[1] < 128
                  THEN IF b[1] = 0 THEN Read(ErrCanonInt, 0, pos)
                       ELSE Read(NoError, b[1], pos + 1)
             ELSE IF size > UintSize THEN Read(errUintOverflow, 0, pos)
             ELSE IF size >= 2 /\ b[1] = 0 THEN Read(ErrCanonInt, 0, pos + 1)
             ELSE Read(NoError, readUint(b), pos + 1)

\* Stream.decodeBigInt
StreamBigInt(s, pos) ==
    IF pos > Len(s) THEN Read(EOL, 0, pos)
    ELSE LET b == s[pos].bytes
         IN  IF s[pos].list THEN Read(ErrExpectedString, 0, pos)
             ELSE IF Len(b) > 0 /\ b[1] = 0 THEN Read(ErrCanonInt, 0, pos + 1)
             ELSE Read(NoError, readUint(b), pos + 1)

\* decodeByteArray into an array of n bytes
StreamByteArray(s, pos, n) ==
    IF pos > Len(s) THEN Read(EOL, <<>>, pos)
    ELSE LET b == s[pos].bytes
         IN  IF s[pos].list THEN Read(ErrExpectedString, <<>>, pos)
             ELSE IF Len(b) < n THEN Read(ErrStringTooShort, <<>>, pos)
             ELSE IF Len(b) > n THEN Read(ErrStringTooLong, <<>>, pos)
             ELSE Read(NoError, b, pos + 1)

\* Stream.Bytes
StreamBytes(s, pos) ==
    IF pos > Len(s) THEN Read(EOL, <<>>, pos)
    ELSE IF s[pos].list THEN Read(ErrExpectedString, <<>>, pos)
    ELSE Read(NoError, s[pos].bytes, pos + 1)

\* decodeListSlice into a []uint64: a list of any length, each element a uint64
StreamUintSlice(s, pos) ==
    IF pos > Len(s) THEN Read(EOL, <<>>, pos)
    ELSE IF ~s[pos].list THEN Read(ErrExpectedList, <<>>, pos)
    ELSE LET xs == s[pos].items
             bad == {i \in 1..Len(xs) : StreamUint(xs, i).err # NoError}
         IN  IF bad # {}
             THEN Read(StreamUint(xs, CHOOSE i \in bad : \A j \in bad : i <= j).err, <<>>, pos + 1)
             ELSE Read(NoError, [i \in 1..Len(xs) |-> StreamUint(xs, i).v], pos + 1)

----------------------------------------------------------------------------
(* Header.EncodeRLP and Header.DecodeRLP *)

HashLength == 32

AddressLength == 20

BloomByteLength == 256

NonceLength == 8

HashOf(k) == [i \in 1..HashLength |-> IF i = 1 THEN k ELSE 0]

\* the zero value of Header, which DecodeRLP fills in
ZeroHeader ==
    [ParentHash |-> Rep(HashLength, 0), UncleHash |-> Rep(HashLength, 0),
     Coinbase |-> Rep(AddressLength, 0), Root |-> Rep(HashLength, 0),
     TxHash |-> Rep(HashLength, 0), ReceiptHash |-> Rep(HashLength, 0),
     Bloom |-> Rep(BloomByteLength, 0), Difficulty |-> None, Number |-> None,
     GasLimit |-> 0, GasUsed |-> 0, Time |-> 0, Extra |-> <<>>,
     MixDigest |-> Rep(HashLength, 0), Nonce |-> Rep(NonceLength, 0),
     BaseFee |-> None, WithdrawalsHash |-> None, BlobGasUsed |-> None,
     ExcessBlobGas |-> None, ParentBeaconRoot |-> None, RequestsHash |-> None,
     GasLimits |-> None, GasUsedVector |-> None, ExcessGas |-> None,
     BaseFees |-> None]

\* len(v) of a slice that may be nil
SliceLen(v) == IF IsNil(v) THEN 0 ELSE Len(Val(v))

ErrNegativeBigInt == "rlp: cannot encode negative big.Int"

\* what an encoding step did: the error it returned, or the items it wrote
Wrote(xs) == [err |-> NoError, items |-> xs]

EncodeFailed(e) == [err |-> e, items |-> <<>>]

encodeBigIntOrEmpty(value) ==
    IF IsNil(value) THEN Wrote(<<EmptyString>>)
    ELSE IF Val(value) < 0 THEN EncodeFailed(ErrNegativeBigInt)
    ELSE Wrote(<<WriteBigInt(Val(value))>>)

encodeHashOrEmpty(hash) == IF IsNil(hash) THEN EmptyString ELSE WriteBytes(Val(hash))

encodeUint64PtrOrEmpty(value) == IF IsNil(value) THEN EmptyString ELSE WriteUint64(Val(value))

encodeUint64Vector(vector) ==
    Lst([i \in 1..SliceLen(vector) |-> WriteUint64(Val(vector)[i])])

\* the optional fields after BaseFee that encodePreEIP7706 writes
encodeAfterBaseFee(h) ==
    LET hasWithdrawals == ~IsNil(h.WithdrawalsHash)
        hasBlobGas == ~IsNil(h.BlobGasUsed)
        hasExcessBlob == ~IsNil(h.ExcessBlobGas)
        hasBeaconRoot == ~IsNil(h.ParentBeaconRoot)
        hasRequests == ~IsNil(h.RequestsHash)
    IN  (IF hasWithdrawals \/ hasBlobGas \/ hasExcessBlob \/ hasBeaconRoot \/ hasRequests
         THEN <<encodeHashOrEmpty(h.WithdrawalsHash)>> ELSE <<>>)
        \o (IF hasBlobGas \/ hasExcessBlob \/ hasBeaconRoot \/ hasRequests
            THEN <<encodeUint64PtrOrEmpty(h.BlobGasUsed)>> ELSE <<>>)
        \o (IF hasExcessBlob \/ hasBeaconRoot \/ hasRequests
            THEN <<encodeUint64PtrOrEmpty(h.ExcessBlobGas)>> ELSE <<>>)
        \o (IF hasBeaconRoot \/ hasRequests
            THEN <<encodeHashOrEmpty(h.ParentBeaconRoot)>> ELSE <<>>)
        \o (IF hasRequests THEN <<encodeHashOrEmpty(h.RequestsHash)>> ELSE <<>>)

encodePreEIP7706(h) ==
    LET hasAnyOptionalField ==
            \/ ~IsNil(h.BaseFee) \/ ~IsNil(h.WithdrawalsHash) \/ ~IsNil(h.BlobGasUsed)
            \/ ~IsNil(h.ExcessBlobGas) \/ ~IsNil(h.ParentBeaconRoot) \/ ~IsNil(h.RequestsHash)
    IN  IF ~hasAnyOptionalField THEN Wrote(<<>>)
        ELSE IF encodeBigIntOrEmpty(h.BaseFee).err # NoError
             THEN EncodeFailed(encodeBigIntOrEmpty(h.BaseFee).err)
        ELSE Wrote(encodeBigIntOrEmpty(h.BaseFee).items \o encodeAfterBaseFee(h))

encodeEIP7706(h) ==
    Wrote(<<encodeHashOrEmpty(h.WithdrawalsHash), encodeHashOrEmpty(h.ParentBeaconRoot),
            encodeHashOrEmpty(h.RequestsHash), encodeUint64Vector(h.GasLimits),
            encodeUint64Vector(h.GasUsedVector), encodeUint64Vector(h.ExcessGas)>>)

\* the layout EncodeRLP chooses
EncodesAsEIP7706(h) ==
    SliceLen(h.GasLimits) > 0 /\ SliceLen(h.GasUsedVector) > 0 /\ SliceLen(h.ExcessGas) > 0

\* the items EncodeRLP writes up to the trailing fields, Difficulty and Number aside
encodeFixed(h, difficulty, number) ==
    <<WriteBytes(h.ParentHash), WriteBytes(h.UncleHash), WriteBytes(h.Coinbase),
      WriteBytes(h.Root), WriteBytes(h.TxHash), WriteBytes(h.ReceiptHash),
      WriteBytes(h.Bloom)>> \o difficulty \o number
    \o (IF ~EncodesAsEIP7706(h) THEN <<WriteUint64(h.GasLimit), WriteUint64(h.GasUsed)>> ELSE <<>>)
    \o <<WriteUint64(h.Time), WriteBytes(h.Extra), WriteBytes(h.MixDigest), WriteBytes(h.Nonce)>>

\* EncodeRLP: the error it returns, or the items of the outer list it writes.
EncodeRLP(h) ==
    LET trailing == IF EncodesAsEIP7706(h) THEN encodeEIP7706(h) ELSE encodePreEIP7706(h)
    IN  IF encodeBigIntOrEmpty(h.Difficulty).err # NoError
        THEN EncodeFailed(encodeBigIntOrEmpty(h.Difficulty).err)
        ELSE IF encodeBigIntOrEmpty(h.Number).err # NoError
        THEN EncodeFailed(encodeBigIntOrEmpty(h.Number).err)
        ELSE IF trailing.err # NoError THEN EncodeFailed(trailing.err)
        ELSE Wrote(encodeFixed(h, encodeBigIntOrEmpty(h.Difficulty).items,
                               encodeBigIntOrEmpty(h.Number).items) \o trailing.items)

\* a value read into a freshly allocated pointer
AsPointer(r) == Read(r.err, Some(r.v), r.pos)

\* s.Decode(&h.f) for a field of Go type typ, by the decoder rlp picks for
\* the type; a pointer field is allocated and set only when decoding succeeds.
DecodeValue(s, pos, typ) ==
    CASE typ = "common.Hash" -> StreamByteArray(s, pos, HashLength)
      [] typ = "common.Address" -> StreamByteArray(s, pos, AddressLength)
      [] typ = "Bloom" -> StreamByteArray(s, pos, BloomByteLength)
      [] typ = "BlockNonce" -> StreamByteArray(s, pos, NonceLength)
      [] typ = "[]byte" -> StreamBytes(s, pos)
      [] typ = "uint64" -> StreamUint(s, pos)
      [] typ = "*big.Int" -> AsPointer(StreamBigInt(s, pos))
      [] typ = "*uint64" -> AsPointer(StreamUint(s, pos))
      [] typ = "*common.Hash" -> AsPointer(StreamByteArray(s, pos, HashLength))
      [] typ = "VectorGasLimit" -> AsPointer(StreamUintSlice(s, pos))

\* The element of a singleton set.  The decoder below is a sequence of
\* statements, each continuing from the state the previous one left:
\* Once({F(d) : d \in {e}}) is F applied to the value of e.
Once(S) == CHOOSE r \in S : TRUE

\* A decoder state d is [s, pos, h, isEIP7706, err]: the stream and the
\* position in it, the header being filled in, the layout detected, and the
\* error returned so far.  StoreField is the outcome of one read r for the
\* field f: the error is returned, or the value is stored.
StoreField(d, f, r) ==
    IF r.err # NoError
    THEN [d EXCEPT !.err = r.err, !.pos = r.pos]
    ELSE [d EXCEPT !.h[f] = r.v, !.pos = r.pos]

\* One "if err := s.Decode(&h.f); err != nil { return err }" of the decoder;
\* once an error was returned the remaining statements do not run.
DecodeField(d, f, typ) ==
    IF d.err # NoError THEN d ELSE StoreField(d, f, DecodeValue(d.s, d.pos, typ))

Decode(d0, f, typ) == Once({DecodeField(d, f, typ) : d \in {d0}})

\* h.f = v, unless the decoder has returned
Assign(d0, f, v) ==
    Once({IF d.err # NoError THEN d ELSE [d EXCEPT !.h[f] = v] : d \in {d0}})

\* a variant of handleErr that reports the end of the list as an error
handleErrKeepEOL(err) == err

handleErr(err) == IF err = EOL THEN NoError ELSE err

decodePreEIP7706(d) ==
    LET d1 == Decode(d, "BaseFee", "*big.Int")
        d2 == Decode(d1, "WithdrawalsHash", "*common.Hash")
        d3 == Decode(d2, "BlobGasUsed", "*uint64")
        d4 == Decode(d3, "ExcessBlobGas", "*uint64")
        d5 == Decode(d4, "ParentBeaconRoot", "*common.Hash")
        d6 == Decode(d5, "RequestsHash", "*common.Hash")
    IN  Once({[r EXCEPT !.err = handleErr(r.err)] : r \in {d6}})

decodeEIP7706(d) ==
    LET d1 == Decode(d, "WithdrawalsHash", "*common.Hash")
        d2 == Decode(d1, "ParentBeaconRoot", "*common.Hash")
        d3 == Decode(d2, "RequestsHash", "*common.Hash")
        d4 == Decode(d3, "GasLimits", "VectorGasLimit")
        d5 == Decode(d4, "GasUsedVector", "VectorGasLimit")
        d6 == Decode(d5, "ExcessGas", "VectorGasLimit")
    IN  Once({[r EXCEPT !.err = handleErr(r.err)] : r \in {d6}})

\* The choice of the layout in DecodeRLP: the first integer is read, then the
\* next item is tried as the uint64 GasUsed.  Any error of the attempt selects
\* the vector layout, and the stream continues from wherever the attempt left
\* it; otherwise the legacy layout is read, Time following GasUsed.
decodeLayout(d) ==
    LET eitherGasLimitOrTime == StreamUint(d.s, d.pos)
        gasUsedRead == StreamUint(d.s, eitherGasLimitOrTime.pos)
    IN  IF d.err # NoError THEN d
        ELSE IF eitherGasLimitOrTime.err # NoError
             THEN [d EXCEPT !.err = eitherGasLimitOrTime.err, !.pos = eitherGasLimitOrTime.pos]
        ELSE IF gasUsedRead.err # NoError
             THEN [d EXCEPT !.isEIP7706 = TRUE, !.pos = gasUsedRead.pos,
                            !.h.Time = eitherGasLimitOrTime.v]
        ELSE Decode([d EXCEPT !.pos = gasUsedRead.pos, !.h.GasUsed = gasUsedRead.v,
                              !.h.GasLimit = eitherGasLimitOrTime.v],
                    "Time", "uint64")

\* the trailing fields, by the layout detected
decodeTrailing(d) ==
    IF d.err # NoError THEN d
    ELSE IF d.isEIP7706 THEN decodeEIP7706(d) ELSE decodePreEIP7706(d)

\* DecodeRLP on the items s of the outer list, into a zero Header: the header
\* as the decoder leaves it, the error it returns, and the layout it read the
\* items in (its local isEIP7706).
DecodeRLP(s) ==
    LET d0 == [s |-> s, pos |-> 1, h |-> ZeroHeader, isEIP7706 |-> FALSE, err |-> NoError]
        d1 == Decode(d0, "ParentHash", "common.Hash")
        d2 == Decode(d1, "UncleHash", "common.Hash")
        d3 == Decode(d2, "Coinbase", "common.Address")
        d4 == Decode(d3, "Root", "common.Hash")
        d5 == Decode(d4, "TxHash", "common.Hash")
        d6 == Decode(d5, "ReceiptHash", "common.Hash")
        d7 == Decode(d6, "Bloom", "Bloom")
        d8 == Decode(Assign(d7, "Difficulty", Some(0)), "Difficulty", "*big.Int")
        d9 == Decode(Assign(d8, "Number", Some(0)), "Number", "*big.Int")
        d10 == Once({decodeLayout(d) : d \in {d9}})
        d11 == Decode(d10, "Extra", "[]byte")
        d12 == Decode(d11, "MixDigest", "common.Hash")
        d13 == Decode(d12, "Nonce", "BlockNonce")
        d14 == Once({decodeTrailing(d) : d \in {d13}})
    IN  Once({[h |-> d.h, err |-> d.err, isEIP7706 |-> d.isEIP7706] : d \in {d14}})

----------------------------------------------------------------------------
(* SpecCodec: a header is encoded, and the encoding is decoded *)

\* the fixed fields of the headers of TestHeaderRLPPreEIP7706 / TestHeaderRLPEIP7706
BaseHeader ==
    [ZeroHeader EXCEPT !.ParentHash = HashOf(18), !.UncleHash = HashOf(152),
                       !.Coinbase = Rep(AddressLength, 18), !.Root = HashOf(171),
                       !.TxHash = HashOf(69), !.ReceiptHash = HashOf(120),
                       !.Difficulty = Some(12345), !.Number = Some(67890),
                       !.MixDigest = HashOf(52), !.Nonce = <<1, 2, 3, 4, 5, 6, 7, 8>>]

TimeVals == {0, 5, 300}

ScalarGasLimitVals == {0, 1000}

ScalarGasUsedVals == {0, 500}

\* Extra of n bytes starting with byte b
MkExtra(n, b) == [i \in 1..n |-> IF i = 1 THEN b ELSE 116]

ExtraLens == {1, 2, 3, 9, 15, 32}

ExtraFirstBytes == {0, 1, 200}

ExtraVals == {<<>>} \cup {MkExtra(n, b) : n \in ExtraLens, b \in ExtraFirstBytes}

LegacyExtraVals == {<<>>, MkExtra(1, 1), MkExtra(15, 116)}

HashPtrVals(k) == {None, Some(HashOf(k))}

BaseFeeVals == {None, Some(0), Some(100)}

BlobGasUsedVals == {None, Some(2000)}

ExcessBlobGasVals == {None, Some(0), Some(3000)}

CodecVectorVals == {<<1, 2, 3>>, <<0, 300, 70000>>}

WithScalars(h, t, gl, gu, x) ==
    [h EXCEPT !.Time = t, !.GasLimit = gl, !.GasUsed = gu, !.Extra = x]

LegacyHeaders ==
    {[WithScalars(BaseHeader, t, gl, gu, x) EXCEPT
          !.BaseFee = bf, !.WithdrawalsHash = wh, !.BlobGasUsed = bg,
          !.ExcessBlobGas = eb, !.ParentBeaconRoot = pb, !.RequestsHash = rh] :
        t \in TimeVals, gl \in ScalarGasLimitVals, gu \in ScalarGasUsedVals,
        x \in LegacyExtraVals, bf \in BaseFeeVals, wh \in HashPtrVals(1),
        bg \in BlobGasUsedVals, eb \in ExcessBlobGasVals,
        pb \in HashPtrVals(4), rh \in HashPtrVals(7)}

VectorHeaders ==
    {[WithScalars(BaseHeader, t, gl, gu, x) EXCEPT
          !.BaseFee = bf, !.WithdrawalsHash = wh, !.ParentBeaconRoot = pb,
          !.RequestsHash = rh, !.GasLimits = Some(l), !.GasUsedVector = Some(u),
          !.ExcessGas = Some(e)] :
        t \in TimeVals, gl \in ScalarGasLimitVals, gu \in ScalarGasUsedVals,
        x \in ExtraVals, bf \in {None, Some(100)}, wh \in HashPtrVals(1),
        pb \in HashPtrVals(4), rh \in HashPtrVals(7),
        l \in CodecVectorVals, u \in CodecVectorVals, e \in CodecVectorVals}

\* headers with only some of the three vectors populated
PartialHeaders ==
    {[WithScalars(BaseHeader, 5, 1000, 500, x) EXCEPT
          !.GasLimits = l, !.GasUsedVector = u, !.ExcessGas = e] :
        x \in LegacyExtraVals,
        l \in {Some(<<1, 2, 3>>)}, u \in {None, Some(<<>>), Some(<<1, 2, 3>>)},
        e \in {None, Some(<<>>)}}

\* headers with a nil or negative Difficulty, Number or BaseFee, or carrying
\* the BaseFees cache, in either layout
UnusualHeaders ==
    {[WithScalars(BaseHeader, 5, 1000, 500, MkExtra(15, 116)) EXCEPT
          !.Difficulty = d, !.Number = n, !.BaseFee = bf, !.BaseFees = c,
          !.GasLimits = v, !.GasUsedVector = v, !.ExcessGas = v,
          !.WithdrawalsHash = Some(HashOf(1)), !.ParentBeaconRoot = pb,
          !.RequestsHash = pb] :
        d \in {None, Some(-1), Some(12345)}, n \in {None, Some(-1), Some(67890)},
        bf \in {None, Some(-5), Some(100)},
        c \in {None, Some(<<Some(1), Some(1), Some(1)>>)},
        v \in {None, Some(<<1, 2, 3>>)}, pb \in {None, Some(HashOf(4))}}

CodecInit ==
    /\ hdr \in LegacyHeaders \cup VectorHeaders \cup PartialHeaders \cup UnusualHeaders
    /\ wire = None
    /\ decoded = None
    /\ decErr = None
    /\ pc = "encode"
    /\ CalcIdle /\ VerifyIdle /\ GasIdle /\ StoreIdle /\ PoolIdle /\ ConcIdle

DoEncodeRLP ==
    /\ pc = "encode"
    /\ \E r \in {EncodeRLP(hdr)} :
          /\ wire' = r.items
          /\ decErr' = IF r.err = NoError THEN decErr ELSE r.err
          /\ pc' = IF r.err = NoError THEN "decode" ELSE "encode failed"
    /\ UNCHANGED <<hdr, decoded, calcVars, verifyVars, gasVars, storeVars, poolVars, concVars>>

DoDecodeRLP ==
    /\ pc = "decode"
    /\ \E r \in {DecodeRLP(wire)} :
          /\ decoded' = r.h
          /\ decErr' = r.err
    /\ pc' = "decoded"
    /\ UNCHANGED <<hdr, wire, calcVars, verifyVars, gasVars, storeVars, poolVars, concVars>>

CodecNext == DoEncodeRLP \/ DoDecodeRLP

SpecCodec == CodecInit /\ [][CodecNext]_vars

----------------------------------------------------------------------------
(* Header codec: round trips *)

RoundTripped == pc = "decoded"

\* the round trip has ended, in a decode or in an error of EncodeRLP
RoundTripDone == pc \in {"decoded", "encode failed"}

\* the fields EncodeRLP writes in one layout or the other (BaseFees is a
\* cache that is never encoded)
EncodedFields == DOMAIN ZeroHeader \ {"BaseFees"}

\* EncodeRLP accepts the header's big integers
BigIntsEncodable(h) ==
    /\ ~IsNil(h.Difficulty) /\ Val(h.Difficulty) >= 0
    /\ ~IsNil(h.Number) /\ Val(h.Number) >= 0
    /\ IsNil(h.BaseFee) \/ Val(h.BaseFee) >= 0

\* the three vectors are populated, three elements each
VectorActive(h) ==
    /\ SliceLen(h.GasLimits) = VectorFeeTypesCount
    /\ SliceLen(h.GasUsedVector) = VectorFeeTypesCount
    /\ SliceLen(h.ExcessGas) = VectorFeeTypesCount

NoVectorFields(h) == IsNil(h.GasLimits) /\ IsNil(h.GasUsedVector) /\ IsNil(h.ExcessGas)

\* the fields the vector layout carries
VectorLayoutFields ==
    {"ParentHash", "UncleHash", "Coinbase", "Root", "TxHash", "ReceiptHash", "Bloom",
     "Difficulty", "Number", "Time", "Extra", "MixDigest", "Nonce",
     "WithdrawalsHash", "ParentBeaconRoot", "RequestsHash",
     "GasLimits", "GasUsedVector", "ExcessGas"}

\* the optional suffix of the legacy layout, in encoding order
OptionalChain ==
    <<"BaseFee", "WithdrawalsHash", "BlobGasUsed", "ExcessBlobGas",
      "ParentBeaconRoot", "RequestsHash">>

\* no optional field is populated at or after position i of the chain
NonePopulatedFrom(h, i) == \A j \in i..Len(OptionalChain) : IsNil(h[OptionalChain[j]])

\* the populated optional fields are the first k of the chain, for some k
PrefixPopulated(h) ==
    \A i \in 1..(Len(OptionalChain) - 1) :
        IsNil(h[OptionalChain[i]]) => IsNil(h[OptionalChain[i + 1]])

LegacyRoundTripOk ==
    /\ RoundTripped
    /\ decErr = NoError
    /\ \A f \in EncodedFields : decoded[f] = hdr[f]
    /\ \A i \in 1..Len(OptionalChain) :
          NonePopulatedFrom(hdr, i) => IsNil(decoded[OptionalChain[i]])

\* C2: every vector-active header (three elements in each vector), whatever
\* the length of Extra and whichever of WithdrawalsHash, ParentBeaconRoot and
\* RequestsHash are present, decodes from its encoding without error to a
\* header equal to it in every field the vector layout carries.
C2_VectorRoundTrip ==
    (RoundTripped /\ VectorActive(hdr)) =>
        /\ decErr = NoError
        /\ \A f \in VectorLayoutFields : decoded[f] = hdr[f]

\* C3 (as stated): every legacy header, with any subset of the optional
\* suffix populated, decodes from its encoding without error to an identical
\* header, the fields after the last populated one being nil.
C3_LegacyRoundTripAnySubset ==
    (RoundTripDone /\ NoVectorFields(hdr) /\ BigIntsEncodable(hdr)) => LegacyRoundTripOk

\* C3 (amended): every legacy header with non-negative Difficulty, Number and
\* BaseFee whose populated optional fields are a prefix of the chain BaseFee,
\* WithdrawalsHash, BlobGasUsed, ExcessBlobGas, ParentBeaconRoot, RequestsHash
\* encodes without error and decodes without error to a header equal to it in
\* every encoded field, the fields after the last populated one being nil.
C3_LegacyRoundTripPrefix ==
    (RoundTripDone /\ NoVectorFields(hdr) /\ BigIntsEncodable(hdr) /\ PrefixPopulated(hdr))
        => LegacyRoundTripOk

\* a legacy header with BaseFee, WithdrawalsHash and BlobGasUsed populated and
\* the rest of the chain nil has made the round trip
C3_Witness ==
    /\ RoundTripped
    /\ NoVectorFields(hdr)
    /\ hdr.BaseFee = Some(100)
    /\ hdr.WithdrawalsHash = Some(HashOf(1))
    /\ hdr.BlobGasUsed = Some(2000)
    /\ NonePopulatedFrom(hdr, 4)
    /\ hdr.GasLimit = 1000
    /\ Len(wire) = 18
    /\ decErr = NoError
    /\ \A f \in EncodedFields : decoded[f] = hdr[f]
    /\ IsNil(decoded.ExcessBlobGas)

\* C4: the header decoded from the encoding of a vector-active header has
\* GasLimit = 0 and GasUsed = 0, whatever Time, Extra and the scalar gas
\* fields of the original were.
C4_ScalarGasZero ==
    (RoundTripped /\ VectorActive(hdr)) => (decoded.GasLimit = 0 /\ decoded.GasUsed = 0)

----------------------------------------------------------------------------
(* Fee vectors (VectorFeeBigint): sequences of optional integers *)

\* the width of uint256, scaled
U256Bits == 24

U256Mod == 2 ^ U256Bits

\* uint256.FromBig: the value modulo 2^256 and whether it overflowed
FromBig(x) == [v |-> x % U256Mod, overflow |-> x >= U256Mod \/ x <= -U256Mod]

ElementNilError == "Vector contains nil element(s)"

ContainsNilElement(vec) == \E i \in 1..Len(vec) : IsNil(vec[i])

\* VectorGasLimit.ToVectorBigInt
ToVectorBigInt(vec) == [i \in 1..Len(vec) |-> Some(vec[i])]

\* VectorFeeBigint.VectorMul: [err, v]
VectorMul(vec, other) ==
    IF ContainsNilElement(vec) \/ ContainsNilElement(other)
    THEN [err |-> ElementNilError, v |-> <<>>]
    ELSE IF Len(vec) > VectorFeeTypesCount \/ Len(other) < Len(vec)
    THEN [err |-> Panic, v |-> <<>>]
    ELSE [err |-> NoError,
          v |-> [i \in 1..VectorFeeTypesCount |->
                    IF i <= Len(vec) THEN Some(Val(vec[i]) * Val(other[i])) ELSE None]]

RECURSIVE SumFrom(_, _)
SumFrom(vec, i) == IF i > Len(vec) THEN 0 ELSE Val(vec[i]) + SumFrom(vec, i + 1)

\* VectorFeeBigint.Sum: [err, v]
Sum(vec) ==
    IF ContainsNilElement(vec) THEN [err |-> ElementNilError, v |-> 0]
    ELSE [err |-> NoError, v |-> SumFrom(vec, 1)]

VectorAllLessOrEqual(vec, other) ==
    /\ ~ContainsNilElement(vec)
    /\ ~ContainsNilElement(other)
    /\ \A i \in 1..Len(vec) : Val(vec[i]) <= Val(other[i])

VecBitLenAllZero(vec) == \A i \in 1..Len(vec) : IsNil(vec[i]) \/ Val(vec[i]) = 0

VecBitLenAllLessEqThan256(vec) ==
    \A i \in 1..Len(vec) :
        IsNil(vec[i]) \/ (Val(vec[i]) < U256Mod /\ Val(vec[i]) > -U256Mod)

----------------------------------------------------------------------------
(* Transaction -> message *)

\* VectorFeeTx.calldataGas, from the counts of zero and non-zero bytes of Data
calldataGas(tx) ==
    (tx.zeroBytes + tx.nonZeroBytes * CalldataTokensPerNonZeroByte) * CalldataGasPerToken

\* VectorFeeTx.blobGas
blobGas(tx) == BlobTxBlobGasPerBlob * tx.blobHashes

\* VectorFeeTx.gasLimits
gasLimits(tx) == <<tx.Gas, blobGas(tx), calldataGas(tx)>>

EffectiveGasTips(tx, baseFees) ==
    [i \in 1..Len(baseFees) |->
        IF IsNil(baseFees[i]) THEN tx.GasTipCaps[i]
        ELSE Some(Min(Val(tx.GasTipCaps[i]), Val(tx.GasFeeCaps[i]) - Val(baseFees[i])))]

EffectiveGasPrices(tx, baseFees) ==
    [i \in 1..Len(baseFees) |->
        IF IsNil(baseFees[i]) THEN tx.GasFeeCaps[i]
        ELSE Some(Min(Val(tx.GasTipCaps[i]) + Val(baseFees[i]), Val(tx.GasFeeCaps[i])))]

TransactionToMessageEIP7706(tx, baseFees) ==
    [GasLimit |-> tx.Gas, Value |-> tx.Value,
     GasFeeCaps |-> tx.GasFeeCaps, GasTipCaps |-> tx.GasTipCaps,
     GasLimits |-> gasLimits(tx),
     EffectiveGasTips |-> EffectiveGasTips(tx, baseFees),
     EffectiveGasPrices |-> EffectiveGasPrices(tx, baseFees)]

----------------------------------------------------------------------------
(* Transaction gas accounting.  m is the message (st.msg), s the rest of    *)
(* the StateTransition: gasRemaining, initialGas, the gas pool gp, the      *)
(* sender's balance, the coinbase's balance, and of the EVM its BaseFees,   *)
(* NoBaseFee and the L1 cost of the message (nil without an L1CostFunc).    *)

ErrFeeCapVeryHigh == "max fee per gas higher than 2^256-1"

ErrTipVeryHigh == "max priority fee per gas higher than 2^256-1"

ErrTipAboveFeeCap == "max priority fee per gas higher than max fee per gas"

ErrFeeCapTooLow == "max fee per gas less than block base fee"

ErrInsufficientFunds == "insufficient funds for gas * price + value"

ErrGasLimitReached == "gas limit reached"

OverflowError == "value overflowed"

\* st.gasUsed()
gasUsed(s) == (s.initialGas - s.gasRemaining) % UintMod

\* preCheckGasEIP7706 comparing the tips with the fee caps before it checks
\* the width of the tips
preCheckGasTipWidthLast(m, s) ==
    IF s.NoBaseFee /\ VecBitLenAllZero(m.GasFeeCaps) /\ VecBitLenAllZero(m.GasTipCaps)
    THEN NoError
    ELSE IF ~VecBitLenAllLessEqThan256(m.GasFeeCaps) THEN ErrFeeCapVeryHigh
    ELSE IF ~VectorAllLessOrEqual(m.GasTipCaps, m.GasFeeCaps) THEN ErrTipAboveFeeCap
    ELSE IF ~VecBitLenAllLessEqThan256(m.GasTipCaps) THEN ErrTipVeryHigh
    ELSE IF ~VectorAllLessOrEqual(s.BaseFees, m.GasFeeCaps) THEN ErrFeeCapTooLow
    ELSE NoError

preCheckGasEIP7706(m, s) ==
    IF s.NoBaseFee /\ VecBitLenAllZero(m.GasFeeCaps) /\ VecBitLenAllZero(m.GasTipCaps)
    THEN NoError
    ELSE IF ~VecBitLenAllLessEqThan256(m.GasFeeCaps) THEN ErrFeeCapVeryHigh
    ELSE IF ~VecBitLenAllLessEqThan256(m.GasTipCaps) THEN ErrTipVeryHigh
    ELSE IF ~VectorAllLessOrEqual(m.GasTipCaps, m.GasFeeCaps) THEN ErrTipAboveFeeCap
    ELSE IF ~VectorAllLessOrEqual(s.BaseFees, m.GasFeeCaps) THEN ErrFeeCapTooLow
    ELSE NoError

\* buyGasEIP7706 charging the gas pool with the sum of the three limits
buyGasChargingAllLimits(m, s) ==
    LET limits == ToVectorBigInt(m.GasLimits)
        maxGasFees == VectorMul(limits, m.GasFeeCaps)
        maxSum == Sum(maxGasFees.v)
        balanceCheck == maxSum.v + (IF IsNil(s.l1Cost) THEN 0 ELSE Val(s.l1Cost)) + m.Value
        s1 == [s EXCEPT !.gp = s.gp - SumFrom(limits, 1),
                        !.gasRemaining = m.GasLimit,
                        !.initialGas = m.GasLimit]
        totalGasFeesVec == VectorMul(m.EffectiveGasPrices, limits)
        totalGasFees == Sum(totalGasFeesVec.v)
    IN  IF maxGasFees.err # NoError THEN [s EXCEPT !.err = maxGasFees.err]
        ELSE IF maxSum.err # NoError THEN [s EXCEPT !.err = maxSum.err]
        ELSE IF FromBig(balanceCheck).overflow THEN [s EXCEPT !.err = ErrInsufficientFunds]
        ELSE IF s.balance < FromBig(balanceCheck).v THEN [s EXCEPT !.err = ErrInsufficientFunds]
        ELSE IF s.gp < SumFrom(limits, 1) THEN [s EXCEPT !.err = ErrGasLimitReached]
        ELSE IF totalGasFeesVec.err # NoError THEN [s1 EXCEPT !.err = totalGasFeesVec.err]
        ELSE IF totalGasFees.err # NoError THEN [s1 EXCEPT !.err = totalGasFees.err]
        ELSE IF FromBig(totalGasFees.v).overflow THEN [s1 EXCEPT !.err = OverflowError]
        ELSE [s1 EXCEPT !.balance = (s.balance - FromBig(totalGasFees.v).v) % U256Mod,
                        !.debited = FromBig(totalGasFees.v).v]

\* buyGasEIP7706: the StateTransition afterwards, s.err the error returned.
\* The gas pool is charged and gasRemaining set before the fees are computed.
buyGasEIP7706(m, s) ==
    LET limits == ToVectorBigInt(m.GasLimits)
        maxGasFees == VectorMul(limits, m.GasFeeCaps)
        maxSum == Sum(maxGasFees.v)
        balanceCheck == maxSum.v + (IF IsNil(s.l1Cost) THEN 0 ELSE Val(s.l1Cost)) + m.Value
        s1 == [s EXCEPT !.gp = s.gp - m.GasLimit,
                        !.gasRemaining = m.GasLimit,
                        !.initialGas = m.GasLimit]
        totalGasFeesVec == VectorMul(m.EffectiveGasPrices, limits)
        totalGasFees == Sum(totalGasFeesVec.v)
    IN  IF maxGasFees.err # NoError THEN [s EXCEPT !.err = maxGasFees.err]
        ELSE IF maxSum.err # NoError THEN [s EXCEPT !.err = maxSum.err]
        ELSE IF FromBig(balanceCheck).overflow THEN [s EXCEPT !.err = ErrInsufficientFunds]
        ELSE IF s.balance < FromBig(balanceCheck).v THEN [s EXCEPT !.err = ErrInsufficientFunds]
        ELSE IF s.gp < m.GasLimit THEN [s EXCEPT !.err = ErrGasLimitReached]
        ELSE IF totalGasFeesVec.err # NoError THEN [s1 EXCEPT !.err = totalGasFeesVec.err]
        ELSE IF totalGasFees.err # NoError THEN [s1 EXCEPT !.err = totalGasFees.err]
        ELSE IF FromBig(totalGasFees.v).overflow THEN [s1 EXCEPT !.err = OverflowError]
        ELSE [s1 EXCEPT !.balance = (s.balance - FromBig(totalGasFees.v).v) % U256Mod,
                        !.debited = FromBig(totalGasFees.v).v]

\* vectorGasUsed: gasUsed is the slice st.msg.GasLimits itself, so the
\* assignment to its execution element writes into the message.
vectorGasUsed(m, s) == [m EXCEPT !.GasLimits[ExecutionGasIndex] = gasUsed(s)]

\* vectorGasRemaining: st.msg.GasLimits minus the vector vectorGasUsed returns,
\* which is the same slice; both operands are read after vectorGasUsed wrote.
vectorGasRemaining(m, s) ==
    VectorSubtractClampAtZero(vectorGasUsed(m, s).GasLimits, vectorGasUsed(m, s).GasLimits)

\* refundGasToAddressEIP7706 refunding the gas limits instead of the gas remaining
refundGasLimitsToAddress(m, s) ==
    LET gasToRefund == ToVectorBigInt(m.GasLimits)
        gasFeeToRefundVec == VectorMul(gasToRefund, m.EffectiveGasPrices)
        gasFeeToRefund == Sum(gasFeeToRefundVec.v)
    IN  IF gasFeeToRefundVec.err # NoError THEN [s EXCEPT !.err = gasFeeToRefundVec.err]
        ELSE IF gasFeeToRefund.err # NoError THEN [s EXCEPT !.err = gasFeeToRefund.err]
        ELSE IF FromBig(gasFeeToRefund.v).overflow THEN [s EXCEPT !.err = Panic]
        ELSE [s EXCEPT !.balance = (s.balance + gasFeeToRefund.v) % U256Mod,
                       !.credited = gasFeeToRefund.v]

\* refundGasToAddressEIP7706: the StateTransition afterwards
refundGasToAddressEIP7706(m, s) ==
    LET gasToRefund == ToVectorBigInt(vectorGasRemaining(m, s))
        gasFeeToRefundVec == VectorMul(gasToRefund, m.EffectiveGasPrices)
        gasFeeToRefund == Sum(gasFeeToRefundVec.v)
    IN  IF gasFeeToRefundVec.err # NoError THEN [s EXCEPT !.err = gasFeeToRefundVec.err]
        ELSE IF gasFeeToRefund.err # NoError THEN [s EXCEPT !.err = gasFeeToRefund.err]
        ELSE IF FromBig(gasFeeToRefund.v).overflow THEN [s EXCEPT !.err = Panic]
        ELSE [s EXCEPT !.balance = (s.balance + gasFeeToRefund.v) % U256Mod,
                       !.credited = gasFeeToRefund.v]

\* payTheTipEIP7706 paying the effective prices instead of the effective tips
payThePriceEIP7706(m, s) ==
    LET used == vectorGasUsed(m, s).GasLimits
        gasTipsVec == VectorMul(m.EffectiveGasPrices, ToVectorBigInt(used))
        totalGasTip == Sum(gasTipsVec.v)
    IN  IF s.NoBaseFee /\ VecBitLenAllZero(m.GasTipCaps) /\ VecBitLenAllZero(m.GasFeeCaps)
        THEN s
        ELSE IF gasTipsVec.err # NoError THEN [s EXCEPT !.err = gasTipsVec.err]
        ELSE IF totalGasTip.err # NoError THEN [s EXCEPT !.err = totalGasTip.err]
        ELSE IF FromBig(totalGasTip.v).overflow THEN [s EXCEPT !.err = OverflowError]
        ELSE [s EXCEPT !.coinbase = (s.coinbase + FromBig(totalGasTip.v).v) % U256Mod]

\* payTheTipEIP7706: the StateTransition afterwards
payTheTipEIP7706(m, s) ==
    LET used == vectorGasUsed(m, s).GasLimits
        gasTipsVec == VectorMul(m.EffectiveGasTips, ToVectorBigInt(used))
        totalGasTip == Sum(gasTipsVec.v)
    IN  IF s.NoBaseFee /\ VecBitLenAllZero(m.GasTipCaps) /\ VecBitLenAllZero(m.GasFeeCaps)
        THEN s
        ELSE IF gasTipsVec.err # NoError THEN [s EXCEPT !.err = gasTipsVec.err]
        ELSE IF totalGasTip.err # NoError THEN [s EXCEPT !.err = totalGasTip.err]
        ELSE IF FromBig(totalGasTip.v).overflow THEN [s EXCEPT !.err = OverflowError]
        ELSE [s EXCEPT !.coinbase = (s.coinbase + FromBig(totalGasTip.v).v) % U256Mod]

----------------------------------------------------------------------------
(* SpecGas: one vector-fee transaction goes through the pre-check, buys its *)
(* gas, executes, is refunded and pays the tip.                             *)

TxGasVals == {21, 40}

TxBlobCounts == {0, 1}

\* (zero bytes, non-zero bytes) of the transaction's data
TxDataVals == {<<0, 0>>, <<1, 1>>}

TxGasTipCapsVals == {<<0, 0, 0>>, <<2, 1, 1>>, <<6, 1, 1>>, <<U256Mod, 1, 1>>}

TxGasFeeCapsVals == {<<0, 0, 0>>, <<5, 3, 3>>, <<10, 3, 3>>, <<U256Mod, 3, 3>>}

TxValueVals == {0, 9}

BlockBaseFeesVals == {<<1, 1, 1>>, <<4, 2, 1>>}

BalanceVals == {0, 500, 5000000}

GasPoolVals == {30, 1000000}

L1CostVals == {None, Some(7)}

\* the execution gas a transaction may turn out to use
ExecUsedVals == {0, 13, 21, 40}

Txs ==
    {[Gas |-> g, blobHashes |-> b, zeroBytes |-> d[1], nonZeroBytes |-> d[2],
      GasTipCaps |-> ToVectorBigInt(t), GasFeeCaps |-> ToVectorBigInt(c), Value |-> v] :
        g \in TxGasVals, b \in TxBlobCounts, d \in TxDataVals,
        t \in TxGasTipCapsVals, c \in TxGasFeeCapsVals, v \in TxValueVals}

\* LegacyTx and AccessListTx: the gas price is the fee cap and the tip cap of
\* execution and calldata, and the blob caps are zero
LegacyTxGasTipCaps(gasPrice) == <<Some(gasPrice), Some(0), Some(gasPrice)>>

LegacyTxGasFeeCaps(gasPrice) == <<Some(gasPrice), Some(0), Some(gasPrice)>>

DynamicFeeTxGasTipCaps(gasTipCap) == <<Some(gasTipCap), Some(0), Some(gasTipCap)>>

DynamicFeeTxGasFeeCaps(gasFeeCap) == <<Some(gasFeeCap), Some(0), Some(gasFeeCap)>>

GasPriceVals == {0, 5, 10}

\* (GasTipCap, GasFeeCap) of a dynamic fee transaction
DynamicCapVals == {<<0, 0>>, <<2, 5>>, <<6, 5>>}

\* transactions without blobs of the types that precede the vector fee type
NonBlobTxs ==
    {[Gas |-> 21, blobHashes |-> 0, zeroBytes |-> d[1], nonZeroBytes |-> d[2],
      GasTipCaps |-> LegacyTxGasTipCaps(p), GasFeeCaps |-> LegacyTxGasFeeCaps(p), Value |-> 0] :
        d \in TxDataVals, p \in GasPriceVals}
    \cup
    {[Gas |-> 21, blobHashes |-> 0, zeroBytes |-> d[1], nonZeroBytes |-> d[2],
      GasTipCaps |-> DynamicFeeTxGasTipCaps(c[1]), GasFeeCaps |-> DynamicFeeTxGasFeeCaps(c[2]),
      Value |-> 0] :
        d \in TxDataVals, c \in DynamicCapVals}

\* caps of a message built directly (a call, not a transaction): elements may
\* be absent
DirectFeeCapsVals ==
    {<<None, None, None>>, <<Some(0), None, Some(0)>>, <<Some(5), None, Some(3)>>,
     <<Some(5), Some(3), Some(3)>>}

DirectTipCapsVals ==
    {<<None, None, None>>, <<Some(2), None, Some(1)>>, <<Some(2), Some(1), Some(1)>>}

\* messages built directly, field by field: the effective prices are the fee
\* caps or were never set
DirectMsgs ==
    {[GasLimit |-> 21, Value |-> 0, GasFeeCaps |-> c, GasTipCaps |-> t,
      GasLimits |-> <<21, 0, 16>>, EffectiveGasTips |-> t,
      EffectiveGasPrices |-> IF set THEN c ELSE <<None, None, None>>] :
        c \in DirectFeeCapsVals, t \in DirectTipCapsVals, set \in BOOLEAN}

GasInit ==
    /\ \E bf \in BlockBaseFeesVals, bal \in BalanceVals, pool \in GasPoolVals,
          nbf \in BOOLEAN, l1 \in L1CostVals :
          /\ msg \in {TransactionToMessageEIP7706(tx, ToVectorBigInt(bf)) :
                         tx \in Txs \cup NonBlobTxs}
                      \cup DirectMsgs
          /\ st = [gasRemaining |-> 0, initialGas |-> 0, gp |-> pool, balance |-> bal,
                   coinbase |-> 0, BaseFees |-> ToVectorBigInt(bf), NoBaseFee |-> nbf,
                   l1Cost |-> l1, debited |-> 0, credited |-> 0, err |-> NoError]
    /\ pc = "precheck"
    /\ CalcIdle /\ VerifyIdle /\ CodecIdle /\ StoreIdle /\ PoolIdle /\ ConcIdle

DoPreCheckGas ==
    /\ pc = "precheck"
    /\ st' = [st EXCEPT !.err = preCheckGasEIP7706(msg, st)]
    /\ pc' = IF st'.err = NoError THEN "buy" ELSE "precheck failed"
    /\ UNCHANGED <<msg, calcVars, verifyVars, codecVars, storeVars, poolVars, concVars>>

DoBuyGas ==
    /\ pc = "buy"
    /\ st' = buyGasEIP7706(msg, st)
    /\ pc' = IF st'.err = NoError THEN "exec" ELSE "buy failed"
    /\ UNCHANGED <<msg, calcVars, verifyVars, codecVars, storeVars, poolVars, concVars>>

\* the EVM run between buyGas and the refund: it leaves gasRemaining
DoExecute ==
    /\ pc = "exec"
    /\ \E used \in ExecUsedVals :
          /\ used <= st.initialGas
          /\ st' = [st EXCEPT !.gasRemaining = st.initialGas - used]
    /\ pc' = "refund"
    /\ UNCHANGED <<msg, calcVars, verifyVars, codecVars, storeVars, poolVars, concVars>>

DoRefundGasToAddress ==
    /\ pc = "refund"
    /\ msg' = vectorGasUsed(msg, st)
    /\ st' = refundGasToAddressEIP7706(msg, st)
    /\ pc' = IF st'.err = NoError THEN "tip" ELSE "failed"
    /\ UNCHANGED <<calcVars, verifyVars, codecVars, storeVars, poolVars, concVars>>

DoPayTheTip ==
    /\ pc = "tip"
    /\ msg' = IF st.NoBaseFee /\ VecBitLenAllZero(msg.GasTipCaps) /\ VecBitLenAllZero(msg.GasFeeCaps)
              THEN msg ELSE vectorGasUsed(msg, st)
    /\ st' = payTheTipEIP7706(msg, st)
    /\ pc' = "paid"
    /\ UNCHANGED <<calcVars, verifyVars, codecVars, storeVars, poolVars, concVars>>

GasNext == DoPreCheckGas \/ DoBuyGas \/ DoExecute \/ DoRefundGasToAddress \/ DoPayTheTip

SpecGas == GasInit /\ [][GasNext]_vars

----------------------------------------------------------------------------
(* Gas accounting: buy, then refund *)

\* refundGasToAddressEIP7706 has returned without error
Refunded == pc \in {"tip", "paid"}

\* C1: for a transaction whose blob and calldata gas limits are 0, once
\* buyGasEIP7706 has succeeded, execution has used gasUsed <= the execution
\* limit and refundGasToAddressEIP7706 has run, what was debited from the
\* sender minus what was credited back is EffectiveGasPrices[Execution] * gasUsed.
C1_BuyRefundNet ==
    (/\ Refunded
     /\ msg.GasLimits[BlobGasIndex] = 0
     /\ msg.GasLimits[CalldataGasIndex] = 0)
        => st.debited - st.credited
              = Val(msg.EffectiveGasPrices[ExecutionGasIndex]) * gasUsed(st)

----------------------------------------------------------------------------
(* Gas accounting: admission, purchase and tip *)

ZeroOrAbsent(vec) == \A i \in 1..Len(vec) : vec[i] = None \/ vec[i] = Some(0)

Exceeds256Bits(vec) == \E i \in 1..Len(vec) : vec[i] # None /\ Val(vec[i]) >= U256Mod

\* a[i] <= b[i] in every dimension, both being present
LeqInEveryDimension(a, b) ==
    \A i \in Dims : a[i] # None /\ b[i] # None /\ Val(a[i]) <= Val(b[i])

PreChecked == pc \in {"buy", "precheck failed"}

SkipsFeeChecks == st.NoBaseFee /\ ZeroOrAbsent(msg.GasFeeCaps) /\ ZeroOrAbsent(msg.GasTipCaps)

C15_FailedBuyChangesNothing ==
    [][(DoBuyGas /\ st'.err # NoError) => (st'.balance = st.balance /\ st'.gp = st.gp)]_vars

\* sum over the dimensions of price[i] * gas[i]
RECURSIVE FeeSum(_, _, _)
FeeSum(price, gas, i) ==
    IF i > VectorFeeTypesCount THEN 0 ELSE Val(price[i]) * gas[i] + FeeSum(price, gas, i + 1)

\* C16: when buyGasEIP7706 succeeds, the block gas pool has decreased by
\* exactly GasLimits[Execution], the sender's balance by exactly the sum of
\* EffectiveGasPrices[i] * GasLimits[i], and the coinbase's balance is unchanged.
C16_BuyDebits ==
    [][(DoBuyGas /\ st'.err = NoError) =>
            /\ st'.gp = st.gp - msg.GasLimits[ExecutionGasIndex]
            /\ st'.balance = st.balance - FeeSum(msg.EffectiveGasPrices, msg.GasLimits, 1)
            /\ st'.coinbase = st.coinbase]_vars

\* a transaction with a blob and calldata has bought its gas from the small pool
C16_Witness ==
    /\ pc = "exec"
    /\ msg.GasLimits = <<21, BlobTxBlobGasPerBlob, 20>>
    /\ msg.EffectiveGasPrices = <<Some(3), Some(2), Some(2)>>
    /\ st.gp = 30 - 21
    /\ st.balance = 5000000 - (3 * 21 + 2 * BlobTxBlobGasPerBlob + 2 * 20)

\* C17: unless NoBaseFee is set and all fee caps and tip caps are zero or
\* absent, in which case nothing changes, payTheTipEIP7706 credits the
\* coinbase exactly the sum of EffectiveGasTips[i] * used[i], used[Execution]
\* being the execution gas consumed and used[Blob], used[Calldata] the limits.
C17_TipCredited ==
    [][DoPayTheTip =>
            IF SkipsFeeChecks THEN st' = st
            ELSE /\ st'.err = NoError
                 /\ st'.balance = st.balance
                 /\ st'.coinbase = st.coinbase
                       + FeeSum(msg.EffectiveGasTips,
                                <<gasUsed(st), msg.GasLimits[BlobGasIndex],
                                  msg.GasLimits[CalldataGasIndex]>>, 1)]_vars

\* the tip of a transaction with a blob and calldata that used 13 of its 21
\* execution gas has been paid
C17_Witness ==
    /\ pc = "paid"
    /\ gasUsed(st) = 13
    /\ st.initialGas = 21
    /\ msg.EffectiveGasTips = <<Some(2), Some(1), Some(1)>>
    /\ msg.GasLimits[BlobGasIndex] = BlobTxBlobGasPerBlob
    /\ msg.GasLimits[CalldataGasIndex] = 20
    /\ st.coinbase = 2 * 13 + BlobTxBlobGasPerBlob + 20

----------------------------------------------------------------------------
(* Fee vectors of the array form ([3]*big.Int), whose elementwise add and   *)
(* subtract accept absent elements                                          *)

\* VectorFeeBigint.VectorAdd of the array form: [err, v]
FeeVectorAdd(vec, other) ==
    [err |-> NoError,
     v |-> [i \in Dims |->
              IF IsNil(vec[i]) /\ IsNil(other[i]) THEN None
              ELSE IF IsNil(vec[i]) THEN other[i]
              ELSE IF IsNil(other[i]) THEN vec[i]
              ELSE Some(Val(vec[i]) + Val(other[i]))]]

\* VectorFeeBigint.VectorSubtract of the array form: [err, v].  The branch
\* for an absent other[i] does not leave the iteration, and the subtraction
\* after it dereferences other[i].
FeeVectorSubtract(vec, other) ==
    IF \E i \in Dims : ~IsNil(vec[i]) /\ IsNil(other[i])
    THEN [err |-> Panic, v |-> <<>>]
    ELSE [err |-> NoError,
          v |-> [i \in Dims |->
                   IF IsNil(vec[i]) /\ IsNil(other[i]) THEN None
                   ELSE IF IsNil(vec[i]) THEN Some(0 - Val(other[i]))
                   ELSE Some(Val(vec[i]) - Val(other[i]))]]

----------------------------------------------------------------------------
(* SpecVec: the comparisons and the elementwise arithmetic of fee vectors   *)
(* on drawn operands                                                        *)

FeeElemVals == {None, Some(0), Some(3), Some(5)}

VecInit ==
    /\ \E a \in Vec3(FeeElemVals), b \in Vec3(FeeElemVals) : calcIn = [vec |-> a, other |-> b]
    /\ calcOut = None
    /\ pc = "vec"
    /\ VerifyIdle /\ CodecIdle /\ GasIdle /\ StoreIdle /\ PoolIdle /\ ConcIdle

DoVectorAllEq ==
    /\ pc = "vec"
    /\ calcOut' = Some([fn |-> "VectorAllEq", v |-> FeeVectorAllEq(calcIn.vec, calcIn.other)])
    /\ pc' = "done"
    /\ UNCHANGED <<calcIn, verifyVars, codecVars, gasVars, storeVars, poolVars, concVars>>

DoVectorAllLessOrEqual ==
    /\ pc = "vec"
    /\ calcOut' = Some([fn |-> "VectorAllLessOrEqual",
                        v |-> VectorAllLessOrEqual(calcIn.vec, calcIn.other)])
    /\ pc' = "done"
    /\ UNCHANGED <<calcIn, verifyVars, codecVars, gasVars, storeVars, poolVars, concVars>>

DoVectorAdd ==
    /\ pc = "vec"
    /\ calcOut' = Some([fn |-> "VectorAdd", v |-> FeeVectorAdd(calcIn.vec, calcIn.other)])
    /\ pc' = "done"
    /\ UNCHANGED <<calcIn, verifyVars, codecVars, gasVars, storeVars, poolVars, concVars>>

DoVectorSubtract ==
    /\ pc = "vec"
    /\ calcOut' = Some([fn |-> "VectorSubtract",
                        v |-> FeeVectorSubtract(calcIn.vec, calcIn.other)])
    /\ pc' = "done"
    /\ UNCHANGED <<calcIn, verifyVars, codecVars, gasVars, storeVars, poolVars, concVars>>

VecNext == DoVectorAllEq \/ DoVectorAllLessOrEqual \/ DoVectorAdd \/ DoVectorSubtract

SpecVec == VecInit /\ [][VecNext]_vars

----------------------------------------------------------------------------
BothAbsent(a, b, i) == a[i] = None /\ b[i] = None

BothPresent(a, b, i) == a[i] # None /\ b[i] # None

\* C18: VectorAllEq and VectorAllLessOrEqual on fee vectors take an index
\* where both elements are absent as equal, satisfying both comparisons, and
\* an index where exactly one element is absent as unequal and not
\* less-or-equal.
C18_AbsentPairsCompareEqual ==
    /\ CalcDone("VectorAllEq") =>
          (Val(calcOut).v <=>
              \A i \in Dims :
                  \/ BothAbsent(calcIn.vec, calcIn.other, i)
                  \/ /\ BothPresent(calcIn.vec, calcIn.other, i)
                     /\ Val(calcIn.vec[i]) = Val(calcIn.other[i]))
    /\ CalcDone("VectorAllLessOrEqual") =>
          (Val(calcOut).v <=>
              \A i \in Dims :
                  \/ BothAbsent(calcIn.vec, calcIn.other, i)
                  \/ /\ BothPresent(calcIn.vec, calcIn.other, i)
                     /\ Val(calcIn.vec[i]) <= Val(calcIn.other[i]))

\* an absent operand counts as zero
OrZero(o) == IF o = None THEN 0 ELSE Val(o)

\* C19: the elementwise VectorAdd and VectorSubtract that accept absent
\* elements never panic, whatever elements are absent in either operand: a
\* result element is absent exactly when both operand elements are, and is
\* otherwise computed with the absent operand taken as zero.
C19_AbsenceInArithmetic ==
    (CalcDone("VectorAdd") \/ CalcDone("VectorSubtract")) =>
        /\ Val(calcOut).v.err = NoError
        /\ \A i \in Dims :
              IF BothAbsent(calcIn.vec, calcIn.other, i)
              THEN Val(calcOut).v.v[i] = None
              ELSE Val(calcOut).v.v[i] =
                      Some(IF Val(calcOut).fn = "VectorAdd"
                           THEN OrZero(calcIn.vec[i]) + OrZero(calcIn.other[i])
                           ELSE OrZero(calcIn.vec[i]) - OrZero(calcIn.other[i]))

----------------------------------------------------------------------------
(* Base fees of a header in the key-value store.  The bytes stored under a  *)
(* key are a sequence of RLP items: none for a missing key or an empty      *)
(* value, one for a well-formed encoding.                                   *)

headerBaseFeesPrefix == "hb"

headerBaseFeesKey(hash) == <<headerBaseFeesPrefix, hash>>

\* rlp.EncodeToBytes of a VectorFeeBigint: a list of integers, a nil element
\* written as the empty string
EncodeToBytes(baseFees) ==
    <<Lst([i \in 1..Len(baseFees) |->
              IF IsNil(baseFees[i]) THEN EmptyString ELSE WriteBigInt(Val(baseFees[i]))])>>

\* rlp.DecodeBytes into a VectorFeeBigint: [err, v]
DecodeBytes(data) ==
    IF Len(data) # 1 \/ ~data[1].list THEN [err |-> ErrExpectedList, v |-> <<>>]
    ELSE IF \E i \in 1..Len(data[1].items) : StreamBigInt(data[1].items, i).err # NoError
    THEN [err |-> ErrExpectedString, v |-> <<>>]
    ELSE [err |-> NoError,
          v |-> [i \in 1..Len(data[1].items) |-> Some(StreamBigInt(data[1].items, i).v)]]

\* ReadHeaderBaseFees: nil, or a pointer to the decoded vector
ReadHeaderBaseFees(d, hash) ==
    IF Len(d[headerBaseFeesKey(hash)]) = 0 THEN None
    ELSE IF DecodeBytes(d[headerBaseFeesKey(hash)]).err # NoError THEN None
    ELSE Some(DecodeBytes(d[headerBaseFeesKey(hash)]).v)

\* WriteHeaderBaseFees removing the entry when handed nil
WriteHeaderBaseFeesNilClears(d, hash, baseFees) ==
    IF IsNil(baseFees) THEN [d EXCEPT ![headerBaseFeesKey(hash)] = <<>>]
    ELSE [d EXCEPT ![headerBaseFeesKey(hash)] = EncodeToBytes(Val(baseFees))]

\* WriteHeaderBaseFees: the store afterwards
WriteHeaderBaseFees(d, hash, baseFees) ==
    IF IsNil(baseFees) THEN d
    ELSE [d EXCEPT ![headerBaseFeesKey(hash)] = EncodeToBytes(Val(baseFees))]

\* DeleteHeaderBaseFees: the store afterwards
DeleteHeaderBaseFees(d, hash) == [d EXCEPT ![headerBaseFeesKey(hash)] = <<>>]

----------------------------------------------------------------------------
(* SpecStore: writes, deletes and reads of base fees, and writes under the  *)
(* same keys that are not encodings of base fees                            *)

StoreHashes == {"hashA", "hashB", "hashC"}

\* base fees as the fee market engine computes them: every element present
StoreBaseFeesVals ==
    {<<Some(1), Some(2), Some(3)>>, <<Some(0), Some(1), Some(1)>>, <<Some(300), Some(1), Some(7)>>}

\* bytes that are not the encoding of a vector: a string, and a list holding a list
UndecodableVals == {<<Str(<<1, 2>>)>>, <<Lst(<<Lst(<<>>)>>)>>}

StoreInit ==
    /\ db = [k \in {headerBaseFeesKey(h) : h \in StoreHashes} |-> <<>>]
    /\ written = [h \in StoreHashes |-> None]
    /\ readOut = None
    /\ pc = "store"
    /\ CalcIdle /\ VerifyIdle /\ CodecIdle /\ GasIdle /\ PoolIdle /\ ConcIdle

DoWriteHeaderBaseFees ==
    /\ pc = "store"
    /\ \E h \in StoreHashes, b \in {None} \cup {Some(v) : v \in StoreBaseFeesVals} :
          /\ db' = WriteHeaderBaseFees(db, h, b)
          /\ written' = IF IsNil(b) THEN written ELSE [written EXCEPT ![h] = b]
    /\ readOut' = None
    /\ UNCHANGED <<pc, calcVars, verifyVars, codecVars, gasVars, poolVars, concVars>>

DoDeleteHeaderBaseFees ==
    /\ pc = "store"
    /\ \E h \in StoreHashes :
          /\ db' = DeleteHeaderBaseFees(db, h)
          /\ written' = [written EXCEPT ![h] = None]
    /\ readOut' = None
    /\ UNCHANGED <<pc, calcVars, verifyVars, codecVars, gasVars, poolVars, concVars>>

\* another writer puts bytes under the key
DoPutUndecodable ==
    /\ pc = "store"
    /\ \E h \in StoreHashes, raw \in UndecodableVals :
          /\ db' = [db EXCEPT ![headerBaseFeesKey(h)] = raw]
          /\ written' = [written EXCEPT ![h] = None]
    /\ readOut' = None
    /\ UNCHANGED <<pc, calcVars, verifyVars, codecVars, gasVars, poolVars, concVars>>

DoReadHeaderBaseFees ==
    /\ pc = "store"
    /\ \E h \in StoreHashes : readOut' = Some([hash |-> h, v |-> ReadHeaderBaseFees(db, h)])
    /\ UNCHANGED <<db, written, pc, calcVars, verifyVars, codecVars, gasVars, poolVars, concVars>>

StoreNext ==
    \/ DoWriteHeaderBaseFees
    \/ DoDeleteHeaderBaseFees
    \/ DoPutUndecodable
    \/ DoReadHeaderBaseFees

SpecStore == StoreInit /\ [][StoreNext]_vars

----------------------------------------------------------------------------
\* C20: after any sequence of writes and deletes, ReadHeaderBaseFees(hash)
\* returns a vector equal to the base fees most recently written for the hash
\* if no delete of the hash followed, and nil otherwise (never written,
\* deleted, or undecodable bytes); a write of nil changes nothing.
C20_ReadReturnsLastWrite ==
    readOut # None =>
        IF written[Val(readOut).hash] = None
        THEN Val(readOut).v = None
        ELSE /\ Val(readOut).v # None
             /\ FeeVectorAllEq(Val(Val(readOut).v), Val(written[Val(readOut).hash]))

\* base fees with a two-byte element were read back for one hash while the
\* other hash holds undecodable bytes
C20_Witness ==
    /\ readOut = Some([hash |-> "hashA", v |-> Some(<<Some(300), Some(1), Some(7)>>)])
    /\ written["hashA"] = Some(<<Some(300), Some(1), Some(7)>>)
    /\ db[headerBaseFeesKey("hashB")] \in UndecodableVals

----------------------------------------------------------------------------
(* SpecMiner: the block builder prepares a header on a parent, applies     *)
(* transactions to it, and the sealed header is verified against the parent *)

\* what core.CalcGasLimits(parent.GasLimit, GasCeil) returns: a vector of
\* three limits
CalcGasLimits == {<<40, MaxBlobGasPerBlock, 10>>, <<20, 20, 40>>}

\* what ApplyTransactionExtended reports in receipt.GasUsedVector
ReceiptGasUsedVals == {<<21, 0, 20>>, <<30, BlobTxBlobGasPerBlob, 4>>, <<21, 0, 0>>}

\* the EIP-7706 fields prepareWork sets on the new header; GasUsedVector is
\* not among them
prepareWork(p, limits) ==
    LET s == SanitizeEIP7706Fields(p)
    IN  VectorHeader(Some(limits), None,
                     Some(CalcExecGas(s.gasUsed, s.excessGas, s.gasLimits)),
                     Some(CalcBaseFees(s.excessGas, s.gasLimits)))

\* on success the header takes the vector of the receipt; on an error the
\* environment is reverted and the header stays as it was
applyTransaction(h, ok, receiptGasUsedVector) ==
    IF ok THEN [h EXCEPT !.GasUsedVector = Some(receiptGasUsedVector)] ELSE h

MinerInit ==
    /\ parent \in Parents
    /\ header = None
    /\ result = None
    /\ sanitized = None
    /\ pc = "prepare"
    /\ CalcIdle /\ CodecIdle /\ GasIdle /\ StoreIdle /\ PoolIdle /\ ConcIdle

DoPrepareWork ==
    /\ pc = "prepare"
    /\ IF SanitizePanics(parent)
       THEN pc' = "prepare panicked" /\ UNCHANGED header
       ELSE /\ \E l \in CalcGasLimits : header' = prepareWork(parent, l)
            /\ pc' = "fill"
    /\ UNCHANGED <<parent, result, sanitized, calcVars, codecVars, gasVars, storeVars, poolVars, concVars>>

DoApplyTransaction ==
    /\ pc = "fill"
    /\ \E ok \in BOOLEAN, r \in ReceiptGasUsedVals : header' = applyTransaction(header, ok, r)
    /\ UNCHANGED <<parent, result, sanitized, pc, calcVars, codecVars, gasVars, storeVars, poolVars, concVars>>

\* the block is sealed and a peer verifies its header against the parent
DoVerifySealed ==
    /\ pc = "fill"
    /\ result' = Some(VerifyEIP7706Header(parent, header))
    /\ pc' = "sealed"
    /\ UNCHANGED <<parent, header, sanitized, calcVars, codecVars, gasVars, storeVars, poolVars, concVars>>

MinerNext == DoPrepareWork \/ DoApplyTransaction \/ DoVerifySealed

SpecMiner == MinerInit /\ [][MinerNext]_vars

\* C21: the header prepareWork builds on a parent, sealed after zero or more
\* applied transactions, is accepted (nil) by VerifyEIP7706Header against the
\* same parent; a block with no transactions is accepted too.
C21_PreparedHeaderAccepted == pc = "sealed" => Val(result) = NoError

----------------------------------------------------------------------------
(* Vector fee pool (VectorFeePoolDummy)                                    *)
(* A transaction is [hash, from]; from is nil when types.Sender fails.     *)
(* pool.txs is the set of pooled transactions (one per hash);              *)
(* pool.txsByAddress maps an address to nil (no key) or to its slice.      *)

PoolAddrs == {"addrA", "addrB"}

PoolTx(h, a) == [hash |-> h, from |-> a]

PoolTxs ==
    {PoolTx("h1", Some("addrA")), PoolTx("h2", Some("addrA")),
     PoolTx("h3", Some("addrB")), PoolTx("h4", None)}

Sender(tx) == tx.from

NewVectorFeePoolDummy ==
    [txs |-> {}, txsByAddress |-> [a \in PoolAddrs |-> None], head |-> "b0"]

Has(p, hash) == \E t \in p.txs : t.hash = hash

\* txsByAddress[i] = txsByAddress[len-1]; txsByAddress[:len-1]
SwapRemove(txs, i) == SubSeq([txs EXCEPT ![i] = txs[Len(txs)]], 1, Len(txs) - 1)

\* the sender's slice loses the first entry with the hash, and the key goes
\* with the last entry
deleteFromAddress(byAddress, from, hash) ==
    IF IsNil(byAddress[from]) THEN byAddress
    ELSE LET txs  == Val(byAddress[from])
             hits == {i \in 1..Len(txs) : txs[i].hash = hash}
             left == IF hits = {} THEN txs
                     ELSE SwapRemove(txs, CHOOSE i \in hits : \A j \in hits : i <= j)
         IN  [byAddress EXCEPT ![from] = IF Len(left) = 0 THEN None ELSE Some(left)]

RECURSIVE ResetLoop(_, _, _)
ResetLoop(p, blockTxs, i) ==
    IF i > Len(blockTxs) THEN p
    ELSE LET tx == blockTxs[i]
         IN  IF IsNil(Sender(tx)) THEN ResetLoop(p, blockTxs, i + 1)
             ELSE ResetLoop([p EXCEPT !.txs = {t \in p.txs : t.hash # tx.hash},
                                      !.txsByAddress =
                                          deleteFromAddress(p.txsByAddress, Val(Sender(tx)),
                                                            tx.hash)],
                            blockTxs, i + 1)

\* a new head is [name, stateErr, block]: whether chain.StateAt fails for its
\* root, and what chain.GetBlock returns for it (nil or the transactions)
ResetDroppingAll(p, newHead) ==
    IF newHead.stateErr THEN p
    ELSE IF IsNil(newHead.block) THEN [p EXCEPT !.head = newHead.name]
    ELSE [NewVectorFeePoolDummy EXCEPT !.head = newHead.name]

Reset(p, newHead) ==
    IF newHead.stateErr THEN p
    ELSE IF IsNil(newHead.block) THEN [p EXCEPT !.head = newHead.name]
    ELSE ResetLoop([p EXCEPT !.head = newHead.name], Val(newHead.block), 1)

RECURSIVE AddLoop(_, _, _)
AddLoop(p, txs, i) ==
    IF i > Len(txs) THEN p
    ELSE LET tx == txs[i]
         IN  IF Has(p, tx.hash) \/ IsNil(Sender(tx)) THEN AddLoop(p, txs, i + 1)
             ELSE LET from == Val(Sender(tx))
                      old  == IF IsNil(p.txsByAddress[from]) THEN <<>>
                              ELSE Val(p.txsByAddress[from])
                  IN  AddLoop([p EXCEPT !.txs = @ \cup {tx},
                                        !.txsByAddress[from] = Some(Append(old, tx))],
                              txs, i + 1)

Add(p, txs) == AddLoop(p, txs, 1)

----------------------------------------------------------------------------
(* SpecPool: batches are added to the pool and the pool is reset to new heads *)

AddBatches ==
    {<<>>} \cup {<<t>> : t \in PoolTxs}
    \cup {<<PoolTx("h1", Some("addrA")), PoolTx("h2", Some("addrA"))>>,
          <<PoolTx("h2", Some("addrA")), PoolTx("h1", Some("addrA"))>>}

NewHeads ==
    {[name |-> "b1", stateErr |-> FALSE, block |-> None],
     [name |-> "b2", stateErr |-> FALSE, block |-> Some(<<>>)],
     [name |-> "b3", stateErr |-> FALSE, block |-> Some(<<PoolTx("h1", Some("addrA"))>>)],
     [name |-> "b4", stateErr |-> FALSE,
      block |-> Some(<<PoolTx("h4", None), PoolTx("h2", Some("addrA"))>>)],
     [name |-> "b5", stateErr |-> FALSE,
      block |-> Some(<<PoolTx("h3", Some("addrB")), PoolTx("h1", Some("addrA"))>>)],
     [name |-> "b6", stateErr |-> TRUE,
      block |-> Some(<<PoolTx("h1", Some("addrA")), PoolTx("h3", Some("addrB"))>>)]}

PoolInit ==
    /\ txPool = NewVectorFeePoolDummy
    /\ poolCall = None
    /\ pc = "pool"
    /\ CalcIdle /\ VerifyIdle /\ CodecIdle /\ GasIdle /\ StoreIdle /\ ConcIdle

DoAdd ==
    /\ pc = "pool"
    /\ \E txs \in AddBatches :
          /\ txPool' = Add(txPool, txs)
          /\ poolCall' = Some([op |-> "Add", newHead |-> None, before |-> txPool])
    /\ UNCHANGED <<pc, calcVars, verifyVars, codecVars, gasVars, storeVars, concVars>>

DoReset ==
    /\ pc = "pool"
    /\ \E newHead \in NewHeads :
          /\ txPool' = Reset(txPool, newHead)
          /\ poolCall' = Some([op |-> "Reset", newHead |-> Some(newHead), before |-> txPool])
    /\ UNCHANGED <<pc, calcVars, verifyVars, codecVars, gasVars, storeVars, concVars>>

PoolNext == DoAdd \/ DoReset

SpecPool == PoolInit /\ [][PoolNext]_vars

\* a Reset has just returned
AfterReset == poolCall # None /\ Val(poolCall).op = "Reset"

ResetHead == Val(Val(poolCall).newHead)

\* the block of the new head contains the transaction
HeadBlockContains(tx) ==
    /\ ~IsNil(ResetHead.block)
    /\ \E i \in 1..Len(Val(ResetHead.block)) : Val(ResetHead.block)[i].hash = tx.hash

InTxsByAddress(p, tx) ==
    /\ ~IsNil(p.txsByAddress[Val(Sender(tx))])
    /\ \E i \in 1..Len(Val(p.txsByAddress[Val(Sender(tx))])) :
          Val(p.txsByAddress[Val(Sender(tx))])[i].hash = tx.hash

\* txs and txsByAddress hold the same transactions, each once, and no
\* address keeps an empty slice
PoolConsistent(p) ==
    /\ \A t \in p.txs : InTxsByAddress(p, t)
    /\ \A a \in PoolAddrs :
          ~IsNil(p.txsByAddress[a]) =>
              LET txs == Val(p.txsByAddress[a])
              IN  /\ Len(txs) > 0
                  /\ \A i \in 1..Len(txs) : txs[i] \in p.txs /\ Sender(txs[i]) = Some(a)
                  /\ \A i, j \in 1..Len(txs) : txs[i] = txs[j] => i = j

----------------------------------------------------------------------------
\* C23: for every header, DecodeRLP reads the items EncodeRLP wrote in the
\* layout EncodeRLP chose: the vector layout exactly when GasLimits,
\* GasUsedVector and ExcessGas are all non-empty, the legacy layout otherwise,
\* whatever Time and Extra are.
C23_SameLayoutBothWays ==
    RoundTripped => (DecodeRLP(wire).isEIP7706 <=> EncodesAsEIP7706(hdr))

----------------------------------------------------------------------------
(* SpecConc: two goroutines call the fee market engine, each for a chain   *)
(* with its own ratio table.  The only place a table can be given to the   *)
(* engine is the package variable params.LimitTargetRatios (calcIn.ratios), *)
(* which a caller assigns before its call and getBlockTargets reads, one   *)
(* element at a time, without synchronization.                             *)

Goroutines == {1, 2}

ConcRatioVals == {LimitTargetRatios, <<1, 2, 0>>, <<0, 0, 0>>}

ConcLimitVals == {<<20, 20, 40>>, <<41, 0, 20>>}

ConcFns == {"getBlockTargets", "CalcExecGas"}

\* a call: the table of the caller's chain, the function, its arguments, and
\* the position of the goroutine (at, i) with the locals of getBlockTargets
NewCall(cfg, fn, limits) ==
    [cfg |-> cfg, fn |-> fn, used |-> <<16, 5, 16>>, excess |-> <<7, 0, 7>>, limits |-> limits,
     at |-> "assign", i |-> 1, targets |-> <<0, 0, 0>>, ret |-> None]

ConcInit ==
    /\ calcIn = [ratios |-> LimitTargetRatios]
    /\ calcOut = None
    /\ \E c \in ConcRatioVals, f \in ConcFns, l \in ConcLimitVals :
          calls = [g \in Goroutines |->
                      IF g = 1 THEN NewCall(LimitTargetRatios, "CalcExecGas", <<20, 20, 40>>)
                      ELSE NewCall(c, f, l)]
    /\ pc = "conc"
    /\ VerifyIdle /\ CodecIdle /\ GasIdle /\ StoreIdle /\ PoolIdle

\* the loop of getBlockTargets moves to the next index, or ends
NextIndex(c) == IF c.i = VectorFeeTypesCount THEN [c EXCEPT !.at = "return"]
                ELSE [c EXCEPT !.i = c.i + 1]

\* params.LimitTargetRatios = table: an array of three words is copied, one
\* word per step
DoAssignRatios(g) ==
    /\ calls[g].at = "assign"
    /\ LET c == calls[g]
       IN  /\ calcIn' = [calcIn EXCEPT !.ratios[c.i] = c.cfg[c.i]]
           /\ calls' = [calls EXCEPT ![g] = IF c.i = VectorFeeTypesCount
                                            THEN [c EXCEPT !.at = "loop", !.i = 1]
                                            ELSE [c EXCEPT !.i = c.i + 1]]
    /\ UNCHANGED <<calcOut, pc, verifyVars, codecVars, gasVars, storeVars, poolVars>>

\* if params.LimitTargetRatios[i] == 0 { targets[i] = 0; continue }: on a
\* non-zero ratio the division uses the loaded word, or loads it again
DoLoadRatio(g) ==
    /\ calls[g].at = "loop"
    /\ \E again \in BOOLEAN :
          LET c == calls[g]
              ratio == paramsLimitTargetRatios[c.i]
          IN  calls' = [calls EXCEPT ![g] =
                           IF ratio = 0 THEN NextIndex([c EXCEPT !.targets[c.i] = 0])
                           ELSE IF again THEN [c EXCEPT !.at = "divide"]
                           ELSE NextIndex([c EXCEPT !.targets[c.i] = c.limits[c.i] \div ratio])]
    /\ UNCHANGED <<calcVars, pc, verifyVars, codecVars, gasVars, storeVars, poolVars>>

\* targets[i] = limit / params.LimitTargetRatios[i]
DoDivide(g) ==
    /\ calls[g].at = "divide"
    /\ LET c == calls[g]
           ratio == paramsLimitTargetRatios[c.i]
       IN  calls' = [calls EXCEPT ![g] =
                        IF ratio = 0 THEN [c EXCEPT !.at = "panic"]
                        ELSE NextIndex([c EXCEPT !.at = "loop",
                                                 !.targets[c.i] = c.limits[c.i] \div ratio])]
    /\ UNCHANGED <<calcVars, pc, verifyVars, codecVars, gasVars, storeVars, poolVars>>

\* getBlockTargets returns its targets; CalcExecGas returns
\* excessGas.VectorSubtractClampAtZero(targets)
DoReturn(g) ==
    /\ calls[g].at = "return"
    /\ LET c == calls[g]
       IN  calls' = [calls EXCEPT ![g] =
                        [c EXCEPT !.at = "done",
                                  !.ret = IF c.fn = "getBlockTargets" THEN Some(c.targets)
                                          ELSE Some(VectorSubtractClampAtZero(
                                                        VectorAdd(c.excess, c.used), c.targets))]]
    /\ UNCHANGED <<calcVars, pc, verifyVars, codecVars, gasVars, storeVars, poolVars>>

ConcNext ==
    \E g \in Goroutines : DoAssignRatios(g) \/ DoLoadRatio(g) \/ DoDivide(g) \/ DoReturn(g)

SpecConc == ConcInit /\ [][ConcNext]_vars

\* what the call returns when it runs alone with the table of its own chain
AloneTargets(c) ==
    [i \in Dims |-> IF c.cfg[i] = 0 THEN 0 ELSE c.limits[i] \div c.cfg[i]]

AloneResult(c) ==
    IF c.fn = "getBlockTargets" THEN AloneTargets(c)
    ELSE VectorSubtractClampAtZero(VectorAdd(c.excess, c.used), AloneTargets(c))

\* C24: getBlockTargets, CalcExecGas, CalcBaseFees and VerifyEIP7706Header may
\* be called concurrently, also for chains with different ratio tables: no
\* call fails, and each returns what it returns when run alone with the
\* table of its own chain.
C24_ConcurrentCallsAsAlone ==
    \A g \in Goroutines :
        /\ calls[g].at # "panic"
        /\ calls[g].at = "done" => Val(calls[g].ret) = AloneResult(calls[g])

----------------------------------------------------------------------------
\* C25: vectorGasUsed and vectorGasRemaining leave the message untouched:
\* across the refund and the tip payment, which call them, st.msg.GasLimits
\* keeps its three values, so GasLimits[Execution] is still the execution gas
\* limit of the transaction.
C25_GasLimitsUntouched ==
    [][(pc \in {"refund", "tip"}) =>
          (msg'.GasLimits = msg.GasLimits /\ msg'.GasLimits[ExecutionGasIndex] = msg'.GasLimit)]_vars

----------------------------------------------------------------------------
\* C26: VerifyEIP7706Header accepts a header only if its GasLimits,
\* GasUsedVector and ExcessGas each have exactly three elements; a header with
\* a vector of any other length is not accepted.
C26_AcceptedVectorsHaveThreeElements ==
    (Verified /\ Outcome = NoError) =>
        /\ Len(Val(header.GasLimits)) = VectorFeeTypesCount
        /\ Len(Val(header.GasUsedVector)) = VectorFeeTypesCount
        /\ Len(Val(header.ExcessGas)) = VectorFeeTypesCount

----------------------------------------------------------------------------
\* C27: over the pre-check (not skipped), the buy, the refund and the tip
\* payment of one transaction, what the coinbase is credited never exceeds
\* what the sender has paid net (the buy debit minus the refund credit).
C27_TipWithinNetPayment ==
    (pc \in {"tip", "paid"} /\ ~SkipsFeeChecks) => st.coinbase <= st.debited - st.credited

\* a transaction with a blob and calldata that used 13 of its 21 execution
\* gas paid a tip below what its sender paid
C27_Witness ==
    /\ pc = "paid"
    /\ ~SkipsFeeChecks
    /\ gasUsed(st) = 13
    /\ msg.GasLimits[BlobGasIndex] = BlobTxBlobGasPerBlob
    /\ msg.GasLimits[CalldataGasIndex] = 20
    /\ st.BaseFees = <<Some(4), Some(2), Some(1)>>
    /\ msg.EffectiveGasTips = <<Some(1), Some(1), Some(1)>>
    /\ st.coinbase = 13 + BlobTxBlobGasPerBlob + 20
    /\ st.coinbase < st.debited - st.credited

----------------------------------------------------------------------------
\* base fees CalcBaseFees returns: for a parent at its targets, and for one
\* with excess execution gas
EngineBaseFees == {CalcBaseFees(e, <<20, 20, 40>>) : e \in {<<0, 0, 0>>, <<60, 0, 0>>}}

\* the message of a legacy, access-list or dynamic-fee transaction: no blob
\* gas, blob caps of zero, and one cap for execution and calldata
NonBlobMsg ==
    /\ msg.GasLimits[BlobGasIndex] = 0
    /\ msg.GasFeeCaps[BlobGasIndex] = Some(0)
    /\ msg.GasTipCaps[BlobGasIndex] = Some(0)
    /\ msg.GasFeeCaps[ExecutionGasIndex] = msg.GasFeeCaps[CalldataGasIndex]
    /\ msg.GasTipCaps[ExecutionGasIndex] = msg.GasTipCaps[CalldataGasIndex]

\* C28: on a block whose base fees come from CalcBaseFees, a legacy,
\* access-list or dynamic-fee transaction whose gas price (fee cap) is at
\* least the execution and the calldata base fee, and whose tip cap is at most
\* its fee cap, passes preCheckGasEIP7706.
C28_NonBlobTxPassesPreCheck ==
    (/\ PreChecked
     /\ NonBlobMsg
     /\ st.BaseFees \in EngineBaseFees
     /\ Val(msg.GasFeeCaps[ExecutionGasIndex]) >= Val(st.BaseFees[ExecutionGasIndex])
     /\ Val(msg.GasFeeCaps[CalldataGasIndex]) >= Val(st.BaseFees[CalldataGasIndex])
     /\ Val(msg.GasTipCaps[ExecutionGasIndex]) <= Val(msg.GasFeeCaps[ExecutionGasIndex]))
        => st.err = NoError

----------------------------------------------------------------------------
\* C29: every header VerifyEIP7706Header accepts has, in each dimension,
\* GasUsedVector[i] <= GasLimits[i].
C29_AcceptedUsedWithinLimits ==
    (Verified /\ Outcome = NoError) =>
        \A i \in Dims :
            (i <= Len(Val(header.GasUsedVector)) /\ i <= Len(Val(header.GasLimits)))
                => Val(header.GasUsedVector)[i] <= Val(header.GasLimits)[i]

\* C30: for fixed parent limits each element of CalcBaseFees is the minimum
\* gas price at zero parent excess and does not decrease when the parent
\* excess of its dimension grows, over the whole range of a machine word.
C30_BaseFeeMonotoneInExcess ==
    CalcDone("CalcBaseFees") =>
        \A i \in Dims :
            /\ calcIn.excess[i] = 0 => Val(calcOut).v[i] = Some(TxMinGasPrice)
            /\ \A e \in ExcessVals :
                  calcIn.excess[i] <= e =>
                      Val(Val(calcOut).v[i])
                          <= Val(CalcBaseFees([calcIn.excess EXCEPT ![i] = e], calcIn.limits)[i])

====
